---------------------------- MODULE Spec2Model ----------------------------
(***************************************************************************)
(* Verification model of the AR selfie studio (survivorbandana):           *)
(*   - utils/filters.ts        LowPassFilter, OneEuroFilter                *)
(*   - hooks/useFaceTracking.ts, unnamed/part_007                          *)
(*                             the face-api.js tracking loop               *)
(*   - pages/studio.tsx, unnamed/part_002                                  *)
(*                             bandana load effect, handleCapture          *)
(*   - utils/compositor.ts, unnamed/part_003, unnamed/part_004             *)
(*                             compositeImage, drawWrappedBandana,         *)
(*                             getBandanaSegments                          *)
(*                                                                         *)
(* The module holds several state machines over disjoint variables; each   *)
(* has its own specification (SpecFilter, SpecTrack, SpecCapture,          *)
(* SpecComposite) that leaves the other machines' variables idle.          *)
(***************************************************************************)
EXTENDS Integers, Sequences, FiniteSets, TLC

VARIABLES
    \* ---- OneEuroFilter instance (filters.ts) ----
    xFilter,      \* LowPassFilter state <<y, s>> of the value filter
    dxFilter,     \* LowPassFilter state <<y, s>> of the derivative filter
    lastTime,     \* timestamp of the previous sample (ms) or NULL
    config,       \* <<minCutoff, beta, dcutoff>>
    calls,        \* filter() calls since construction / reset()
    totalCalls,   \* filter() calls in this run (bounds the run)
    lastValue,    \* argument of the most recent filter() call
    lastDt,       \* elapsed time the most recent filter() call divided by
    lastResult,   \* value the most recent filter() call returned
    repeated,     \* every filter() call since construction / reset() was
                  \* given the same value
    lastDx,       \* the dx the most recent filter() call gave to dxFilter
    lastAlpha,    \* the alpha of the xFilter call whose value the most
                  \* recent filter() call returned
    \* ---- useFaceTracking hook (hooks/useFaceTracking.ts, face-api.js) ----
    videoElementRef,     \* TRUE when videoElementRef.current is set
    animationFrameRef,   \* animationFrameRef.current: a frame handle or NoFrame
    modelsLoadedRef,     \* modelsLoadedRef.current
    lastProcessTimeRef,  \* lastProcessTimeRef.current (ms)
    landmarks,           \* the landmark slot: NoLandmarks or the id of the
                         \* detection whose result it holds
    isTracking,          \* the isTracking state
    trackError,          \* TRUE when the error state holds a message
    rafScheduled,        \* handles of the frame callbacks the browser holds
    rafReady,            \* those of them due in the current animation frame
    nextRaf,             \* next handle requestAnimationFrame returns
    loading,             \* initialize() calls awaiting the model load
    initCalls,           \* initialize() calls made so far
    detecting,           \* ids of the detections in flight (suspended ticks)
    nextDet,             \* id of the next detection started
    clock,               \* performance.now() (ms)
    stopped,             \* stop() was called and initialize() not since
    everStopped,         \* stop() was called at some time
    lastOutcome,         \* what the most recent step was: "face", "noface",
                         \* "threw" (a tick's end), "stop", "failed" (a
                         \* failed initialize()), "none" otherwise
    maxApplied,          \* largest detection id written to the slot so far
    missedFramesRef,     \* part_007: missedFramesRef.current
    revision,            \* which revision of the hook runs
    \* ---- Studio page (pages/studio.tsx) ----
    selectedBandana,     \* the selectedBandana state (a bandana id)
    isCapturing,         \* the isCapturing state
    rendered,            \* the state values the committed render closed over
    bandanaImageRef,     \* bandanaImageRef.current: NoBandana or the id of the
                         \* bandana whose image it holds
    loads,               \* loadImage promises of the bandana effect in flight:
                         \* <<sequence number, bandana id>>
    nextLoad,            \* sequence number of the next effect load
    captures,            \* handleCapture invocations in flight
    nextCapture,         \* id of the next handleCapture invocation
    selects,             \* bandana selections made so far
    lastComposite,       \* NULL or <<bandana selected at the request, bandana
                         \* image handed to compositeImage>> of the last capture
    \* ---- compositor (utils/compositor.ts and its earlier revisions) ----
    lastValidSegments,   \* part_004: the module-level segment cache
    call,                \* NULL or the most recent call <<function, video,
                         \* bandana image, landmarks, output size>>
    frameRect,           \* NULL or <<offsetX, offsetY, drawWidth, drawHeight>>
                         \* of the camera frame that call drew
    overlayCall,         \* NULL or the arguments that call gave the overlay
    overlayDraw,         \* NULL or the placement the overlay drew at
    returned,            \* NULL or the value that call returned
    compositorRevision,  \* which revision of the compositor module runs
    \* ---- useFaceTracking hook, MediaPipe FaceMesh revision ----
    faceMeshRef,         \* TRUE when faceMeshRef.current is set
    filtersRef,          \* filtersRef.current.get(0): NULL (no entry) or the
                         \* PointFilter <<xFilter, yFilter>> of landmark 0
    smoothedLandmarks,   \* the landmarks state: NULL or the smoothed point
    meshTracking,        \* the isTracking state
    rawLandmarks,        \* NULL or the point of the latest face result
    perfNow,             \* performance.now() (ms)
    lastResultKind,      \* the latest event: "none", "face", "noface", "stop"
    reacquired,          \* the latest result is a face, the result before it
                         \* was no face, and a face was tracked before that
    everFace,            \* a face result arrived since the filters were
                         \* last cleared
    results,             \* detector results delivered so far
    \* ---- compositor.ts geometry helpers ----
    quadCall,            \* NULL or, when the latest helper call is one of
                         \* calculateQuadTransform, its arguments
                         \* <<srcQuad, dstQuad>>, each a triangle
                         \* <<scale, topLeft, topRight, bottomLeft>> on the
                         \* grid of multiples of 2^-scale
    quadReturned,        \* NULL or the <<a, b, c, d, e, f>> it returned
    yawCall,             \* NULL or, when the latest helper call is one of
                         \* calculateHeadYaw, its arguments
                         \* <<landmarks, isMirrored>>
    yawReturned,         \* NULL or the angle it returned
    \* ---- the canvas of a compositeImage call (compositor.ts) ----
    canvasCtx,           \* the 2D context: [stack, transform, alpha]
    canvasLayers,        \* the draws made: <<layer, transform, alpha>> each
    canvasInput,         \* NULL or <<bandanaImage, landmarks, number of
                         \* slices, slice whose drawImage throws (0: none)>>
    overlayCalled,       \* the call reached drawWrappedBandana
    overlayEntry,        \* the context as drawWrappedBandana found it
    overlayExit,         \* the context as drawWrappedBandana left it
    canvasPhase,         \* "idle", "logo" (awaiting the logo load), "blob"
                         \* (awaiting toBlob), "resolved", "rejected",
                         \* "handled" (handleCapture has resumed)
    canvasFailure,       \* what rejected the call: "none", "logo", "blob"
    pageShows,           \* what the Studio page shows of the capture:
                         \* "camera" (the live view only) or "preview"
    \* ---- the slices of a drawWrappedBandana call (compositor.ts) ----
    wrapCall,            \* NULL or <<headYaw, bandanaWidth>>: the head yaw
                         \* and bandana width drawWrappedBandana works with
    wrapDrawn,           \* the slices in the order drawn: [index, x, z,
                         \* scale, width] each
    \* ---- useCamera hook (hooks/useCamera.ts) ----
    streamRef,           \* streamRef.current: NoStream or a stream id
    startedRef,          \* startedRef.current
    srcObject,           \* videoRef.current.srcObject: NoStream or a stream
    metadataHandler,     \* videoRef.current.onloadedmetadata is set and the
                         \* event has not fired yet
    isReady,             \* the isReady state
    permissionState,     \* "prompt", "granted", "denied", "error"
    mediaRequests,       \* startCamera calls suspended in their try block:
                         \* [id, stage], stage "getUserMedia" or
                         \* "applyConstraints"
    liveStreams,         \* acquired streams whose tracks have not been stopped
    nextRequest,         \* id of the next getUserMedia request / stream
    cameraStops,         \* stopCamera() calls so far (bounds the run)
    stoppedLast          \* stopCamera() was called and startCamera() not since

filterVars == <<xFilter, dxFilter, lastTime, config, calls, totalCalls,
                lastValue, lastDt, lastResult, repeated, lastDx, lastAlpha>>

trackVars == <<videoElementRef, animationFrameRef, modelsLoadedRef,
               lastProcessTimeRef, landmarks, isTracking, trackError,
               rafScheduled, rafReady, nextRaf, loading, initCalls, detecting,
               nextDet, clock, stopped, everStopped, lastOutcome, maxApplied,
               missedFramesRef, revision>>

captureVars == <<selectedBandana, isCapturing, rendered, bandanaImageRef,
                 loads, nextLoad, captures, nextCapture, selects,
                 lastComposite>>

compositeVars == <<lastValidSegments, call, frameRect, overlayCall,
                   overlayDraw, returned, compositorRevision>>

meshVars == <<faceMeshRef, filtersRef, smoothedLandmarks, meshTracking,
              rawLandmarks, perfNow, lastResultKind, reacquired, everFace,
              results>>

geomVars == <<quadCall, quadReturned, yawCall, yawReturned>>

canvasVars == <<canvasCtx, canvasLayers, canvasInput, overlayCalled,
                overlayEntry, overlayExit, canvasPhase, canvasFailure,
                pageShows>>

wrapVars == <<wrapCall, wrapDrawn>>

cameraVars == <<streamRef, startedRef, srcObject, metadataHandler, isReady,
                permissionState, mediaRequests, liveStreams, nextRequest,
                cameraStops, stoppedLast>>

vars == <<filterVars, trackVars, captureVars, compositeVars, meshVars, geomVars, canvasVars, wrapVars, cameraVars>>

NULL == <<>>

(***************************************************************************)
(* JavaScript numbers.  A number is a triple <<k, m, e>>:                  *)
(*   k = 0  the finite number m * 2^e, where m is 0 (and e is 0) or        *)
(*          2^(MantissaBits-1) <= |m| < 2^MantissaBits                     *)
(*   k = 1  +Infinity (m = 1) or -Infinity (m = -1)                        *)
(*   k = 2  NaN                                                            *)
(* It is IEEE-754 binary floating point, round to nearest, ties to even,   *)
(* with a mantissa of MantissaBits bits where JavaScript has 53, an        *)
(* unbounded exponent and an unsigned zero.                                *)
(***************************************************************************)
MantissaBits == 8

NaN == <<2, 0, 0>>

PosInf == <<1, 1, 0>>

NegInf == <<1, -1, 0>>

Zero == <<0, 0, 0>>

AbsInt(i) == IF i < 0 THEN -i ELSE i

SignInt(i) == IF i < 0 THEN -1 ELSE IF i > 0 THEN 1 ELSE 0

RECURSIVE Pow2(_)
Pow2(k) == IF k = 0 THEN 1 ELSE 2 * Pow2(k - 1)

IsNaN(a) == a[1] = 2

IsInf(a) == a[1] = 1

IsFinite(a) == a[1] = 0

IsZero(a) == a[1] = 0 /\ a[2] = 0

FSign(a) == SignInt(a[2])

FNeg(a) == <<a[1], -a[2], a[3]>>

\* Math.abs
FAbs(a) == <<a[1], AbsInt(a[2]), a[3]>>

\* nearest integer to a/d, ties to even (a >= 0, d > 0)
RoundHalfEven(a, d) ==
    LET f == a \div d
        r == a % d
    IN  IF 2 * r < d THEN f
        ELSE IF 2 * r > d THEN f + 1
        ELSE IF f % 2 = 0 THEN f ELSE f + 1

\* number of low bits n has beyond MantissaBits
RECURSIVE ExtraBits(_)
ExtraBits(n) == IF n < Pow2(MantissaBits) THEN 0 ELSE 1 + ExtraBits(n \div 2)

\* number of bits n lacks to reach MantissaBits (n > 0)
RECURSIVE MissingBits(_)
MissingBits(n) ==
    IF n >= Pow2(MantissaBits - 1) THEN 0 ELSE 1 + MissingBits(2 * n)

\* the number nearest to sign * n * 2^e (n >= 0)
Round(sign, n, e) ==
    IF n = 0 \/ sign = 0 THEN Zero
    ELSE IF n < Pow2(MantissaBits - 1)
         THEN LET k == MissingBits(n) IN <<0, sign * n * Pow2(k), e - k>>
    ELSE LET k == ExtraBits(n)
             m == RoundHalfEven(n, Pow2(k))
         IN  IF m = Pow2(MantissaBits)
             THEN <<0, sign * Pow2(MantissaBits - 1), e + k + 1>>
             ELSE <<0, sign * m, e + k>>

\* the number nearest to the ratio n / d of two integers (d > 0)
RECURSIVE RoundRatio(_, _, _)
RoundRatio(n, d, e) ==
    IF n = 0 THEN Zero
    ELSE IF AbsInt(n) < Pow2(MantissaBits - 1) * d
         THEN RoundRatio(2 * n, d, e - 1)
    ELSE IF AbsInt(n) >= Pow2(MantissaBits) * d
         THEN RoundRatio(n, 2 * d, e + 1)
    ELSE Round(SignInt(n), RoundHalfEven(AbsInt(n), d), e)

\* the number a numeric literal n/d denotes
Num(n, d) == RoundRatio(n, d, 0)

\* a + b of two finite numbers, a[3] >= b[3] or a is zero
AddAligned(a, b) ==
    IF IsZero(a) THEN b
    ELSE IF IsZero(b) THEN a
    ELSE IF a[3] - b[3] >= MantissaBits + 2 THEN a
    ELSE LET n == a[2] * Pow2(a[3] - b[3]) + b[2]
         IN  Round(SignInt(n), AbsInt(n), b[3])

\* the JavaScript operators + - * / on numbers
FAdd(a, b) ==
    IF IsNaN(a) \/ IsNaN(b) THEN NaN
    ELSE IF IsInf(a) /\ IsInf(b) THEN (IF a = b THEN a ELSE NaN)
    ELSE IF IsInf(a) THEN a
    ELSE IF IsInf(b) THEN b
    ELSE IF IsZero(b) \/ (~IsZero(a) /\ a[3] >= b[3]) THEN AddAligned(a, b)
    ELSE AddAligned(b, a)

FSub(a, b) == FAdd(a, FNeg(b))

FMul(a, b) ==
    IF IsNaN(a) \/ IsNaN(b) THEN NaN
    ELSE IF IsInf(a) \/ IsInf(b)
         THEN (IF IsZero(a) \/ IsZero(b) THEN NaN
               ELSE <<1, FSign(a) * FSign(b), 0>>)
    ELSE Round(FSign(a) * FSign(b), AbsInt(a[2]) * AbsInt(b[2]), a[3] + b[3])

\* x/0 is +-Infinity, 0/0 and Infinity/Infinity are NaN
FDiv(a, b) ==
    IF IsNaN(a) \/ IsNaN(b) THEN NaN
    ELSE IF IsInf(a)
         THEN (IF IsInf(b) THEN NaN
               ELSE <<1, FSign(a) * (IF FSign(b) < 0 THEN -1 ELSE 1), 0>>)
    ELSE IF IsInf(b) THEN Zero
    ELSE IF IsZero(b) THEN (IF IsZero(a) THEN NaN ELSE <<1, FSign(a), 0>>)
    ELSE IF IsZero(a) THEN Zero
    ELSE LET s == IF AbsInt(a[2]) >= AbsInt(b[2])
                  THEN MantissaBits - 1 ELSE MantissaBits
         IN  Round(FSign(a) * FSign(b),
                   RoundHalfEven(AbsInt(a[2]) * Pow2(s), AbsInt(b[2])),
                   a[3] - b[3] - s)

\* a < b; every comparison with NaN is false
FLt(a, b) ==
    /\ ~IsNaN(a) /\ ~IsNaN(b)
    /\ a # b
    /\ IF IsInf(a) THEN a = NegInf
       ELSE IF IsInf(b) THEN b = PosInf
       ELSE FSign(FSub(a, b)) < 0


(***************************************************************************)
(* Idle values: a specification holds the machines it does not run here.   *)
(***************************************************************************)
NoFrame == 0

NoLandmarks == 0

FilterIdle ==
    /\ xFilter = <<NULL, NULL>>
    /\ dxFilter = <<NULL, NULL>>
    /\ lastTime = NULL
    /\ config = NULL
    /\ calls = 0
    /\ totalCalls = 0
    /\ lastValue = NULL
    /\ lastDt = NULL
    /\ lastResult = NULL
    /\ lastDx = NULL
    /\ lastAlpha = NULL
    /\ repeated = TRUE

\* the hook after its first render: useState / useRef initial values
TrackStart ==
    /\ videoElementRef = FALSE
    /\ animationFrameRef = NoFrame
    /\ modelsLoadedRef = FALSE
    /\ lastProcessTimeRef = 0
    /\ landmarks = NoLandmarks
    /\ isTracking = FALSE
    /\ trackError = FALSE
    /\ rafScheduled = {}
    /\ rafReady = {}
    /\ nextRaf = 1
    /\ loading = 0
    /\ initCalls = 0
    /\ detecting = {}
    /\ nextDet = 1
    /\ clock = 0
    /\ stopped = FALSE
    /\ everStopped = FALSE
    /\ lastOutcome = "none"
    /\ maxApplied = 0
    /\ missedFramesRef = 0

TrackIdle == TrackStart /\ revision = "useFaceTracking.ts"

NoBandana == 0

\* BANDANAS[0], the initial selectedBandana
FirstBandana == 1

\* the Studio page after its first render and effects: the bandana effect
\* has started loading BANDANAS[0]
CaptureStart ==
    /\ selectedBandana = FirstBandana
    /\ isCapturing = FALSE
    /\ rendered = [isCapturing |-> FALSE, selectedBandana |-> FirstBandana]
    /\ bandanaImageRef = NoBandana
    /\ loads = {<<1, FirstBandana>>}
    /\ nextLoad = 2
    /\ captures = {}
    /\ nextCapture = 1
    /\ selects = 0
    /\ lastComposite = NULL

CaptureIdle == CaptureStart

\* the compositor module after import: let lastValidSegments = null
CompositeStart ==
    /\ lastValidSegments = NULL
    /\ call = NULL
    /\ frameRect = NULL
    /\ overlayCall = NULL
    /\ overlayDraw = NULL
    /\ returned = NULL

CompositeIdle == CompositeStart /\ compositorRevision = "compositor.ts"

\* the FaceMesh revision of the hook after its first render
MeshStart ==
    /\ faceMeshRef = FALSE
    /\ filtersRef = NULL
    /\ smoothedLandmarks = NULL
    /\ meshTracking = FALSE
    /\ rawLandmarks = NULL
    /\ perfNow = 0
    /\ lastResultKind = "none"
    /\ reacquired = FALSE
    /\ everFace = FALSE
    /\ results = 0

MeshIdle == MeshStart

\* no geometry helper called yet
GeomStart ==
    /\ quadCall = NULL
    /\ quadReturned = NULL
    /\ yawCall = NULL
    /\ yawReturned = NULL

GeomIdle == GeomStart

\* canvas.getContext('2d') of a new canvas: empty state stack, identity
\* transform, globalAlpha 1
FreshContext == [stack |-> <<>>, transform |-> <<>>, alpha |-> "opaque"]

\* no compositeImage call made yet
CanvasStart ==
    /\ canvasCtx = FreshContext
    /\ canvasLayers = <<>>
    /\ canvasInput = NULL
    /\ overlayCalled = FALSE
    /\ overlayEntry = FreshContext
    /\ overlayExit = FreshContext
    /\ canvasPhase = "idle"
    /\ canvasFailure = "none"
    /\ pageShows = "camera"

CanvasIdle == CanvasStart

\* no slice drawn yet
WrapStart ==
    /\ wrapCall = NULL
    /\ wrapDrawn = <<>>

WrapIdle == WrapStart

NoStream == 0

\* the hook after its first render: useRef / useState initial values
CameraStart ==
    /\ streamRef = NoStream
    /\ startedRef = FALSE
    /\ srcObject = NoStream
    /\ metadataHandler = FALSE
    /\ isReady = FALSE
    /\ permissionState = "prompt"
    /\ mediaRequests = {}
    /\ liveStreams = {}
    /\ nextRequest = 1
    /\ cameraStops = 0
    /\ stoppedLast = FALSE

CameraIdle == CameraStart

(***************************************************************************)
(* filters.ts: LowPassFilter and OneEuroFilter                             *)
(***************************************************************************)
One == Num(1, 1)

\* Math.PI, rounded like every other number of the model
MathPI == Num(355, 113)

\* the literal 0.016 of OneEuroFilter.filter (no previous sample)
NominalDt == Num(16, 1000)

\* a fresh LowPassFilter: y = null, s = null
NewLowPassFilter == <<NULL, NULL>>

\* LowPassFilter.filter(value, alpha): the new <<y, s>> and the value returned
LowPassFilter_filter(f, value, alpha) ==
    IF f[1] = NULL
    THEN [f |-> <<value, value>>, out |-> value]
    ELSE LET y == FAdd(FMul(alpha, value), FMul(FSub(One, alpha), f[1]))
         IN  [f |-> <<y, f[2]>>, out |-> y]

\* OneEuroFilter.alpha(cutoff, dt)
Alpha(cutoff, dt) ==
    LET tau == FDiv(One, FMul(FMul(Num(2, 1), MathPI), cutoff))
    IN  FDiv(One, FAdd(One, FDiv(tau, dt)))

\* the elapsed time OneEuroFilter.filter divides by
ElapsedTime(prevTime, now) ==
    IF prevTime # NULL THEN FDiv(FSub(now, prevTime), Num(1000, 1))
    ELSE NominalDt

\* OneEuroFilter.filter(value, now), now = timestamp ?? performance.now():
\* the new xFilter, dxFilter, lastTime, the dt used, the value returned, the
\* dx handed to dxFilter and the alpha of the call that returns
OneEuroFilter_filter(xf, dxf, prevTime, cfg, value, now) ==
    LET dt      == ElapsedTime(prevTime, now)
        newTime == now
        \* line 54 tests this.lastTime after line 52 has assigned it
        first   == IF newTime # NULL
                   THEN LowPassFilter_filter(xf, value, Alpha(cfg[3], dt))
                   ELSE [f |-> xf, out |-> value]
        dx      == IF newTime # NULL
                   THEN FDiv(FSub(value, first.out), dt)
                   ELSE Zero
        de      == LowPassFilter_filter(dxf, dx, Alpha(cfg[3], dt))
        edx     == de.out
        cutoff  == FAdd(cfg[1], FMul(cfg[2], FAbs(edx)))
        second  == LowPassFilter_filter(first.f, value, Alpha(cutoff, dt))
    IN  [xFilter |-> second.f, dxFilter |-> de.f, lastTime |-> newTime,
         dt |-> dt, out |-> second.out, dx |-> dx,
         alpha |-> Alpha(cutoff, dt)]

\* ---- inputs of the filter machine ----
MaxCalls == 2

\* constructor defaults: minCutoff 1.0, beta 0.007, dcutoff 1.0
DefaultConfig == <<One, Num(7, 1000), One>>

Configs == {DefaultConfig, <<Num(1, 2), One, Num(2, 1)>>}

\* sample values (landmark coordinates are normalized to 0..1)
Values == {Num(k, 256) : k \in {0, 64, 77, 128, 151, 201, 256}}

\* sample timestamps in ms: equal and decreasing pairs are among them
Timestamps == {Num(t, 1) : t \in {0, 16, 33, 100}}

FilterStart ==
    /\ xFilter = NewLowPassFilter
    /\ dxFilter = NewLowPassFilter
    /\ lastTime = NULL
    /\ config \in Configs
    /\ calls = 0
    /\ totalCalls = 0
    /\ lastValue = NULL
    /\ lastDt = NULL
    /\ lastResult = NULL
    /\ lastDx = NULL
    /\ lastAlpha = NULL
    /\ repeated = TRUE

\* OneEuroFilter.filter(value, timestamp)
Filter(value, now) ==
    /\ totalCalls < MaxCalls
    /\ \E r \in {OneEuroFilter_filter(xFilter, dxFilter, lastTime, config, value, now)} :
           /\ xFilter' = r.xFilter
           /\ dxFilter' = r.dxFilter
           /\ lastTime' = r.lastTime
           /\ lastDt' = r.dt
           /\ lastResult' = r.out
           /\ lastDx' = r.dx
           /\ lastAlpha' = r.alpha
    /\ lastValue' = value
    /\ repeated' = (calls = 0 \/ (repeated /\ value = lastValue))
    /\ calls' = calls + 1
    /\ totalCalls' = totalCalls + 1
    /\ UNCHANGED config
    /\ UNCHANGED <<trackVars, captureVars, compositeVars, meshVars, geomVars, canvasVars, wrapVars, cameraVars>>

\* OneEuroFilter.reset()
Reset ==
    /\ xFilter' = NewLowPassFilter
    /\ dxFilter' = NewLowPassFilter
    /\ lastTime' = NULL
    /\ calls' = 0
    /\ repeated' = TRUE
    /\ UNCHANGED <<config, totalCalls, lastValue, lastDt, lastResult, lastDx,
                   lastAlpha>>
    /\ UNCHANGED <<trackVars, captureVars, compositeVars, meshVars, geomVars, canvasVars, wrapVars, cameraVars>>

FilterNext ==
    \/ \E v \in Values, t \in Timestamps : Filter(v, t)
    \/ Reset

FilterInit ==
    /\ FilterStart /\ TrackIdle /\ CaptureIdle /\ CompositeIdle
    /\ MeshIdle /\ GeomIdle /\ CanvasIdle /\ WrapIdle /\ CameraIdle

SpecFilter == FilterInit /\ [][FilterNext]_vars

\* C9: every filter() call divides by a positive elapsed time and returns a
\* finite number, also when the timestamp does not advance
C9_PositiveDtFiniteResult ==
    calls > 0 => (FLt(Zero, lastDt) /\ IsFinite(lastResult))

\* C10: the first filter(value) call on a fresh filter returns value
C10_FirstCallReturnsValue ==
    calls = 1 => lastResult = lastValue

\* C11: while filter() is given the same value again and again, every call
\* from the second on returns that value, whatever the timestamps are
C11_RepeatedValueIsFixedPoint ==
    (calls >= 2 /\ repeated) => lastResult = lastValue

\* C12: reset() after earlier samples, then filter(v): the call returns v and
\* leaves the state a freshly constructed filter has after filter(v)
C12_ResetThenFilterIsFirstCall ==
    (calls = 1 /\ totalCalls > 1) =>
        /\ lastResult = lastValue
        /\ \E fresh \in {OneEuroFilter_filter(NewLowPassFilter,
                               NewLowPassFilter, NULL, config, lastValue,
                               lastTime)} :
               /\ xFilter = fresh.xFilter
               /\ dxFilter = fresh.dxFilter
               /\ lastTime = fresh.lastTime


\* C23: on every filter() call after the first, the raw derivative given to
\* the derivative filter is (value - previous sample's value) / elapsed time
C23_DerivativeIsValueDeltaOverTime ==
    [][(calls >= 1 /\ calls' = calls + 1) =>
           lastDx' = FDiv(FSub(lastValue', lastValue), lastDt')]_vars

\* C26: on every filter() call after the first, the value returned is
\* alpha * value + (1 - alpha) * (the value the previous call returned)
C26_BlendWithPreviousOutput ==
    [][(calls >= 1 /\ calls' = calls + 1) =>
           lastResult' = FAdd(FMul(lastAlpha', lastValue'),
                              FMul(FSub(One, lastAlpha'), lastResult))]_vars

(***************************************************************************)
(* The face-api.js tracking hook, in its two revisions:                    *)
(*   "useFaceTracking.ts"  hooks/useFaceTracking.ts lines 1-127            *)
(*   "part_007"            unnamed/part_007                                *)
(* An animation frame (NewFrame) makes every callback registered before it *)
(* due; a callback registered while the frame's callbacks run is due in    *)
(* the next frame.  A model load and a detection are promises that settle  *)
(* at any later time.  Names are those of useFaceTracking.ts; part_007     *)
(* calls the refs videoRef, rafRef and lastTsRef.                          *)
(***************************************************************************)
HookRevisions == {"useFaceTracking.ts", "part_007"}

IsPart007 == revision = "part_007"

\* "Throttle to ~15 fps (66ms per frame)"
ThrottleMs == 66

\* part_007: landmarks are cleared after more than this many missed frames
MissedFramesLimit == 10

\* time between two animation frames (display refresh), ms
FrameMs == 33

MaxFrames == 5

MaxInits == 2

\* the throttle test with its result ignored: every tick may detect
Throttled_off(now, last) == FALSE

\* timeSinceLastProcess < 66 (part_007: ts - lastTsRef.current < 66)
Throttled(now, last) == now - last < ThrottleMs

\* part_007 line 71 with the limit ignored: the first miss clears the slot
MissedTooMany_atOnce(missed) == missed > 0

\* part_007 line 71: missedFramesRef.current > 10
MissedTooMany(missed) == missed > MissedFramesLimit

\* animationFrameRef.current = requestAnimationFrame(processFrame)
\* (fired: the handles of the callbacks that have just run)
ScheduleTick(fired) ==
    /\ rafScheduled' = (rafScheduled \ fired) \cup {nextRaf}
    /\ animationFrameRef' = nextRaf
    /\ nextRaf' = nextRaf + 1

\* initialize(videoElement) up to its await of the model load
Initialize ==
    /\ initCalls < MaxInits
    /\ initCalls' = initCalls + 1
    /\ trackError' = FALSE
    /\ videoElementRef' = TRUE
    /\ loading' = loading + 1
    /\ stopped' = FALSE
    /\ lastOutcome' = "none"
    /\ UNCHANGED <<animationFrameRef, modelsLoadedRef, lastProcessTimeRef,
                   landmarks, isTracking, rafScheduled, rafReady, nextRaf,
                   detecting, nextDet, clock, everStopped, maxApplied,
                   missedFramesRef, revision>>
    /\ UNCHANGED <<filterVars, captureVars, compositeVars, meshVars, geomVars, canvasVars, wrapVars, cameraVars>>

\* the model load resolves: initialize() starts the tracking loop
\* (part_007 also sets isTracking here)
ModelsLoaded ==
    /\ loading > 0
    /\ loading' = loading - 1
    /\ modelsLoadedRef' = TRUE
    /\ isTracking' = IF IsPart007 THEN TRUE ELSE isTracking
    /\ rafReady' = rafReady
    /\ ScheduleTick({})
    /\ lastOutcome' = "none"
    /\ UNCHANGED <<videoElementRef, lastProcessTimeRef, landmarks, trackError,
                   initCalls, detecting, nextDet, clock, stopped, everStopped,
                   maxApplied, missedFramesRef, revision>>
    /\ UNCHANGED <<filterVars, captureVars, compositeVars, meshVars, geomVars, canvasVars, wrapVars, cameraVars>>

\* the model load rejects: initialize()'s catch
\* (part_007's loadModels does not load again once the models are loaded)
ModelsFailed ==
    /\ loading > 0
    /\ ~(IsPart007 /\ modelsLoadedRef)
    /\ loading' = loading - 1
    /\ trackError' = TRUE
    /\ isTracking' = FALSE
    /\ lastOutcome' = "failed"
    /\ UNCHANGED <<videoElementRef, animationFrameRef, modelsLoadedRef,
                   lastProcessTimeRef, landmarks, rafScheduled, rafReady,
                   nextRaf, initCalls, detecting, nextDet, clock, stopped,
                   everStopped, maxApplied, missedFramesRef, revision>>
    /\ UNCHANGED <<filterVars, captureVars, compositeVars, meshVars, geomVars, canvasVars, wrapVars, cameraVars>>

\* the browser starts the next animation frame, once every callback due in
\* the current one has run
NewFrame ==
    /\ clock < MaxFrames * FrameMs
    /\ rafReady = {}
    /\ clock' = clock + FrameMs
    /\ rafReady' = rafScheduled
    /\ lastOutcome' = "none"
    /\ UNCHANGED <<videoElementRef, animationFrameRef, modelsLoadedRef,
                   lastProcessTimeRef, landmarks, isTracking, trackError,
                   rafScheduled, nextRaf, loading, initCalls, detecting,
                   nextDet, stopped, everStopped, maxApplied, missedFramesRef,
                   revision>>
    /\ UNCHANGED <<filterVars, captureVars, compositeVars, meshVars, geomVars, canvasVars, wrapVars, cameraVars>>

\* useFaceTracking.ts processFrame, called for frame handle h, up to its
\* return or its await
ProcessFrame(h) ==
    /\ ~IsPart007
    /\ h \in rafReady
    /\ rafReady' = rafReady \ {h}
    /\ lastOutcome' = "none"
    /\ \/ \* refs not set: poll again next frame
          /\ ~videoElementRef \/ ~modelsLoadedRef
          /\ ScheduleTick({h})
          /\ UNCHANGED <<lastProcessTimeRef, detecting, nextDet>>
       \/ \* throttled
          /\ videoElementRef /\ modelsLoadedRef
          /\ Throttled(clock, lastProcessTimeRef)
          /\ ScheduleTick({h})
          /\ UNCHANGED <<lastProcessTimeRef, detecting, nextDet>>
       \/ \* video.readyState # HAVE_ENOUGH_DATA: skip detection
          /\ videoElementRef /\ modelsLoadedRef
          /\ ~Throttled(clock, lastProcessTimeRef)
          /\ ScheduleTick({h})
          /\ UNCHANGED <<lastProcessTimeRef, detecting, nextDet>>
       \/ \* start a detection and suspend on its promise
          /\ videoElementRef /\ modelsLoadedRef
          /\ ~Throttled(clock, lastProcessTimeRef)
          /\ lastProcessTimeRef' = clock
          /\ detecting' = detecting \cup {nextDet}
          /\ nextDet' = nextDet + 1
          /\ rafScheduled' = rafScheduled \ {h}
          /\ UNCHANGED <<animationFrameRef, nextRaf>>
    /\ UNCHANGED <<videoElementRef, modelsLoadedRef, landmarks, isTracking,
                   trackError, loading, initCalls, clock, stopped, everStopped,
                   maxApplied, missedFramesRef, revision>>
    /\ UNCHANGED <<filterVars, captureVars, compositeVars, meshVars, geomVars, canvasVars, wrapVars, cameraVars>>

\* part_007 loop(ts), called for frame handle h with ts = the frame's time:
\* it schedules the next tick first, then returns or starts a detection
Loop(h) ==
    /\ IsPart007
    /\ h \in rafReady
    /\ rafReady' = rafReady \ {h}
    /\ ScheduleTick({h})
    /\ lastOutcome' = "none"
    /\ IF ~videoElementRef \/ Throttled(clock, lastProcessTimeRef)
       THEN UNCHANGED <<lastProcessTimeRef, detecting, nextDet>>
       ELSE /\ lastProcessTimeRef' = clock
            /\ detecting' = detecting \cup {nextDet}
            /\ nextDet' = nextDet + 1
    /\ UNCHANGED <<videoElementRef, modelsLoadedRef, landmarks, isTracking,
                   trackError, loading, initCalls, clock, stopped, everStopped,
                   maxApplied, missedFramesRef, revision>>
    /\ UNCHANGED <<filterVars, captureVars, compositeVars, meshVars, geomVars, canvasVars, wrapVars, cameraVars>>

\* a tick that ends in its catch block without reaching line 71
AfterCatch_noReschedule ==
    /\ rafReady' = rafReady
    /\ UNCHANGED <<rafScheduled, animationFrameRef, nextRaf>>

\* useFaceTracking.ts line 71, reached after the try/catch: the tick
\* schedules the next tick
AfterCatch ==
    /\ rafReady' = rafReady
    /\ ScheduleTick({})

\* what a resumed tick does once its detection has settled: useFaceTracking.ts
\* goes on to line 71, part_007 has scheduled its next tick already
EndOfTick ==
    IF IsPart007
    THEN UNCHANGED <<rafScheduled, rafReady, animationFrameRef, nextRaf>>
    ELSE AfterCatch

\* detection d resolves with a face: the tick resumes and writes the slot
DetectFace(d) ==
    /\ d \in detecting
    /\ detecting' = detecting \ {d}
    /\ landmarks' = d
    /\ maxApplied' = IF d > maxApplied THEN d ELSE maxApplied
    /\ isTracking' = IF IsPart007 THEN isTracking ELSE TRUE
    /\ missedFramesRef' = IF IsPart007 THEN 0 ELSE missedFramesRef
    /\ EndOfTick
    /\ lastOutcome' = "face"
    /\ UNCHANGED <<videoElementRef, modelsLoadedRef, lastProcessTimeRef,
                   trackError, loading, initCalls, nextDet, clock, stopped,
                   everStopped, revision>>
    /\ UNCHANGED <<filterVars, captureVars, compositeVars, meshVars, geomVars, canvasVars, wrapVars, cameraVars>>

\* detection d resolves with no face
DetectNoFace(d) ==
    /\ d \in detecting
    /\ detecting' = detecting \ {d}
    /\ IF IsPart007
       THEN /\ missedFramesRef' = missedFramesRef + 1
            /\ landmarks' = IF MissedTooMany(missedFramesRef + 1)
                            THEN NoLandmarks ELSE landmarks
            /\ UNCHANGED isTracking
       ELSE /\ landmarks' = NoLandmarks
            /\ isTracking' = FALSE
            /\ UNCHANGED missedFramesRef
    /\ EndOfTick
    /\ lastOutcome' = "noface"
    /\ UNCHANGED <<videoElementRef, modelsLoadedRef, lastProcessTimeRef,
                   trackError, loading, initCalls, nextDet, clock, stopped,
                   everStopped, maxApplied, revision>>
    /\ UNCHANGED <<filterVars, captureVars, compositeVars, meshVars, geomVars, canvasVars, wrapVars, cameraVars>>

\* detection d rejects: the catch block logs (part_007: sets error)
DetectThrows(d) ==
    /\ d \in detecting
    /\ detecting' = detecting \ {d}
    /\ trackError' = IF IsPart007 THEN TRUE ELSE trackError
    /\ EndOfTick
    /\ lastOutcome' = "threw"
    /\ UNCHANGED <<videoElementRef, modelsLoadedRef, lastProcessTimeRef,
                   landmarks, isTracking, loading, initCalls, nextDet, clock,
                   stopped, everStopped, maxApplied, missedFramesRef,
                   revision>>
    /\ UNCHANGED <<filterVars, captureVars, compositeVars, meshVars, geomVars, canvasVars, wrapVars, cameraVars>>

\* stop(): cancelAnimationFrame(animationFrameRef.current) removes that handle
\* if the browser still holds it, and does nothing otherwise.
\* useFaceTracking.ts then clears modelsLoadedRef and the landmark slot;
\* part_007 leaves both as they are.
Stop ==
    /\ rafScheduled' = IF animationFrameRef # NoFrame
                       THEN rafScheduled \ {animationFrameRef}
                       ELSE rafScheduled
    /\ rafReady' = IF animationFrameRef # NoFrame
                   THEN rafReady \ {animationFrameRef}
                   ELSE rafReady
    /\ animationFrameRef' = NoFrame
    /\ modelsLoadedRef' = IF IsPart007 THEN modelsLoadedRef ELSE FALSE
    /\ landmarks' = IF IsPart007 THEN landmarks ELSE NoLandmarks
    /\ isTracking' = FALSE
    /\ stopped' = TRUE
    /\ everStopped' = TRUE
    /\ lastOutcome' = "stop"
    /\ UNCHANGED <<videoElementRef, lastProcessTimeRef, trackError, nextRaf,
                   loading, initCalls, detecting, nextDet, clock, maxApplied,
                   missedFramesRef, revision>>
    /\ UNCHANGED <<filterVars, captureVars, compositeVars, meshVars, geomVars, canvasVars, wrapVars, cameraVars>>

TrackInit ==
    /\ TrackStart
    /\ revision \in HookRevisions
    /\ FilterIdle /\ CaptureIdle /\ CompositeIdle /\ MeshIdle /\ GeomIdle
    /\ CanvasIdle /\ WrapIdle /\ CameraIdle

TrackNext ==
    \/ Initialize
    \/ ModelsLoaded
    \/ ModelsFailed
    \/ NewFrame
    \/ \E h \in rafReady : ProcessFrame(h)
    \/ \E h \in rafReady : Loop(h)
    \/ \E d \in detecting : DetectFace(d)
    \/ \E d \in detecting : DetectNoFace(d)
    \/ \E d \in detecting : DetectThrows(d)
    \/ Stop

SpecTrack == TrackInit /\ [][TrackNext]_vars

\* C3: after stop() no tick is scheduled and the landmark slot stays null
C3_StopCancelsAndClears ==
    stopped => (rafScheduled = {} /\ landmarks = NoLandmarks)

\* C5: while tracking has never been stopped, a tick whose detection threw
\* is followed by another scheduled tick
C5_ThrowKeepsLoopAlive ==
    (lastOutcome = "threw" /\ ~everStopped)
        => (animationFrameRef # NoFrame /\ animationFrameRef \in rafScheduled)

C5_Witness ==
    lastOutcome = "threw" /\ ~everStopped /\ animationFrameRef \in rafScheduled

\* C6: at most one detection is in flight, and the slot holds the result of
\* the latest detection started among those applied
C6_OneDetectionInOrder ==
    /\ Cardinality(detecting) <= 1
    /\ landmarks # NoLandmarks => landmarks = maxApplied

C27_AtMostOneLoop ==
    /\ Cardinality(rafScheduled) <= 1
    /\ lastOutcome = "stop" => rafScheduled = {}

\* C30: after every tick outcome, after stop() and after a failed
\* initialize(), isTracking is true exactly when the landmark slot is set
C30_TrackingIffLandmarks ==
    lastOutcome # "none" => (isTracking <=> landmarks # NoLandmarks)

(***************************************************************************)
(* unnamed/part_007 with its tracking loop already running: initialize()   *)
(* has completed, one tick is scheduled, and the loop has met some number  *)
(* of consecutive frames without a face.  Detection 1 stands for the       *)
(* latest detection that found a face, if there was one.                   *)
(***************************************************************************)
TrackRunning ==
    /\ revision = "part_007"
    /\ videoElementRef = TRUE
    /\ animationFrameRef = 1
    /\ modelsLoadedRef = TRUE
    /\ lastProcessTimeRef = 0
    /\ landmarks \in {NoLandmarks, 1}
    /\ isTracking = TRUE
    /\ trackError = FALSE
    /\ rafScheduled = {1}
    /\ rafReady = {}
    /\ nextRaf = 2
    /\ loading = 0
    /\ initCalls = 1
    /\ detecting = {}
    /\ nextDet = 2
    /\ clock = 0
    /\ stopped = FALSE
    /\ everStopped = FALSE
    /\ lastOutcome = "none"
    /\ maxApplied = landmarks
    /\ missedFramesRef \in 0..MissedFramesLimit

TrackRunningInit ==
    /\ TrackRunning
    /\ FilterIdle /\ CaptureIdle /\ CompositeIdle /\ MeshIdle /\ GeomIdle
    /\ CanvasIdle /\ WrapIdle /\ CameraIdle

TrackRunningNext ==
    \/ Initialize
    \/ ModelsLoaded
    \/ NewFrame
    \/ \E h \in rafReady : Loop(h)
    \/ \E d \in detecting : DetectFace(d)
    \/ \E d \in detecting : DetectNoFace(d)
    \/ \E d \in detecting : DetectThrows(d)
    \/ Stop

SpecTrackRunning == TrackRunningInit /\ [][TrackRunningNext]_vars

\* C25: the landmark slot is cleared only by a tick that makes more than 10
\* consecutive no-face results; a tick that finds a face resets the counter
\* and overwrites the slot; a miss within the limit leaves the slot alone
C25_ClearedOnlyAfterLimit ==
    [][/\ (landmarks # NoLandmarks /\ landmarks' = NoLandmarks) =>
              (lastOutcome' = "noface" /\ missedFramesRef' > MissedFramesLimit)
       /\ lastOutcome' = "face" =>
              (missedFramesRef' = 0 /\ landmarks' # NoLandmarks)
       /\ (lastOutcome' = "noface" /\ missedFramesRef' <= MissedFramesLimit) =>
              landmarks' = landmarks]_vars

\* the slot held landmarks and the eleventh consecutive miss has cleared it
C25_Witness ==
    /\ lastOutcome = "noface"
    /\ missedFramesRef = MissedFramesLimit + 1
    /\ maxApplied > 0
    /\ landmarks = NoLandmarks

(***************************************************************************)
(* pages/studio.tsx (lines 1-295) with components/CaptureButton            *)
(* (unnamed/part_002): bandana selection, the bandana load effect and      *)
(* handleCapture.  An event handler runs with the state values of the      *)
(* render that created it; a state setter takes effect in the next render  *)
(* (Render), which also runs the effects whose dependencies changed.       *)
(***************************************************************************)
\* BANDANAS has three entries
NumBandanas == 3

Bandanas == 1..NumBandanas

MaxSelects == 2

MaxCaptures == 2

\* BandanaPicker onSelect = setSelectedBandana
SelectBandana(b) ==
    /\ selects < MaxSelects
    /\ b # selectedBandana
    /\ selectedBandana' = b
    /\ selects' = selects + 1
    /\ UNCHANGED <<isCapturing, rendered, bandanaImageRef, loads, nextLoad,
                   captures, nextCapture, lastComposite>>
    /\ UNCHANGED <<filterVars, trackVars, compositeVars, meshVars, geomVars, canvasVars, wrapVars, cameraVars>>

\* React renders Studio with the current state; the effect with dependency
\* [selectedBandana] runs when that value changed and starts loadImage
Render ==
    /\ rendered # [isCapturing |-> isCapturing,
                   selectedBandana |-> selectedBandana]
    /\ rendered' = [isCapturing |-> isCapturing,
                    selectedBandana |-> selectedBandana]
    /\ IF selectedBandana # rendered.selectedBandana
       THEN /\ loads' = loads \cup {<<nextLoad, selectedBandana>>}
            /\ nextLoad' = nextLoad + 1
       ELSE UNCHANGED <<loads, nextLoad>>
    /\ UNCHANGED <<selectedBandana, isCapturing, bandanaImageRef, captures,
                   nextCapture, selects, lastComposite>>
    /\ UNCHANGED <<filterVars, trackVars, compositeVars, meshVars, geomVars, canvasVars, wrapVars, cameraVars>>

\* an effect's loadImage resolves: .then(img => bandanaImageRef.current = img)
LoadResolves(l) ==
    /\ l \in loads
    /\ loads' = loads \ {l}
    /\ bandanaImageRef' = l[2]
    /\ UNCHANGED <<selectedBandana, isCapturing, rendered, nextLoad, captures,
                   nextCapture, selects, lastComposite>>
    /\ UNCHANGED <<filterVars, trackVars, compositeVars, meshVars, geomVars, canvasVars, wrapVars, cameraVars>>

\* an effect's loadImage rejects (img.onerror): nothing handles it
LoadRejects(l) ==
    /\ l \in loads
    /\ loads' = loads \ {l}
    /\ UNCHANGED <<selectedBandana, isCapturing, rendered, bandanaImageRef,
                   nextLoad, captures, nextCapture, selects, lastComposite>>
    /\ UNCHANGED <<filterVars, trackVars, compositeVars, meshVars, geomVars, canvasVars, wrapVars, cameraVars>>

\* a click on the capture button: CaptureButton.handleClick passes its
\* isCapturing prop test, handleCapture passes its own test of the same
\* rendered value, calls setIsCapturing(true) and suspends on playAudioCue()
HandleCapture ==
    /\ nextCapture <= MaxCaptures
    /\ ~rendered.isCapturing
    /\ isCapturing' = TRUE
    /\ captures' = captures \cup {[id |-> nextCapture, stage |-> "audio",
                                   requested |-> selectedBandana]}
    /\ nextCapture' = nextCapture + 1
    /\ UNCHANGED <<selectedBandana, rendered, bandanaImageRef, loads, nextLoad,
                   selects, lastComposite>>
    /\ UNCHANGED <<filterVars, trackVars, compositeVars, meshVars, geomVars, canvasVars, wrapVars, cameraVars>>

\* capture c resumes after playAudioCue(), then after the 100 ms timer
CaptureStep(c) ==
    /\ c \in captures
    /\ c.stage \in {"audio", "delay"}
    /\ captures' = (captures \ {c}) \cup
           {[c EXCEPT !.stage = IF c.stage = "audio" THEN "delay"
                                ELSE "background"]}
    /\ UNCHANGED <<selectedBandana, isCapturing, rendered, bandanaImageRef,
                   loads, nextLoad, nextCapture, selects, lastComposite>>
    /\ UNCHANGED <<filterVars, trackVars, compositeVars, meshVars, geomVars, canvasVars, wrapVars, cameraVars>>

\* capture c resumes after the background load and calls compositeImage with
\* bandanaImage: bandanaImageRef.current
BackgroundLoaded(c) ==
    /\ c \in captures
    /\ c.stage = "background"
    /\ captures' = (captures \ {c}) \cup {[c EXCEPT !.stage = "composite"]}
    /\ lastComposite' = <<c.requested, bandanaImageRef>>
    /\ UNCHANGED <<selectedBandana, isCapturing, rendered, bandanaImageRef,
                   loads, nextLoad, nextCapture, selects>>
    /\ UNCHANGED <<filterVars, trackVars, compositeVars, meshVars, geomVars, canvasVars, wrapVars, cameraVars>>

\* compositeImage resolves with the blob: the preview is shown; finally
\* setIsCapturing(false)
CaptureDone(c) ==
    /\ c \in captures
    /\ c.stage = "composite"
    /\ captures' = captures \ {c}
    /\ isCapturing' = FALSE
    /\ UNCHANGED <<selectedBandana, rendered, bandanaImageRef, loads, nextLoad,
                   nextCapture, selects, lastComposite>>
    /\ UNCHANGED <<filterVars, trackVars, compositeVars, meshVars, geomVars, canvasVars, wrapVars, cameraVars>>

\* an awaited promise of capture c rejects: catch logs; finally
\* setIsCapturing(false)
CaptureFails(c) ==
    /\ c \in captures
    /\ captures' = captures \ {c}
    /\ isCapturing' = FALSE
    /\ UNCHANGED <<selectedBandana, rendered, bandanaImageRef, loads, nextLoad,
                   nextCapture, selects, lastComposite>>
    /\ UNCHANGED <<filterVars, trackVars, compositeVars, meshVars, geomVars, canvasVars, wrapVars, cameraVars>>

CaptureInit ==
    /\ CaptureStart /\ FilterIdle /\ TrackIdle /\ CompositeIdle
    /\ MeshIdle /\ GeomIdle /\ CanvasIdle /\ WrapIdle /\ CameraIdle

CaptureNext ==
    \/ \E b \in Bandanas : SelectBandana(b)
    \/ Render
    \/ \E l \in loads : LoadResolves(l)
    \/ \E l \in loads : LoadRejects(l)
    \/ HandleCapture
    \/ \E c \in captures : CaptureStep(c)
    \/ \E c \in captures : BackgroundLoaded(c)
    \/ \E c \in captures : CaptureDone(c)
    \/ \E c \in captures : CaptureFails(c)

SpecCapture == CaptureInit /\ [][CaptureNext]_vars

\* C4: at any time at most one capture is in flight
C4_AtMostOneCapture ==
    Cardinality(captures) <= 1

\* C7: the bandana image a capture hands to compositeImage is the image of
\* the bandana that was selected when the capture was requested
C7_CompositesSelectedBandana ==
    lastComposite # NULL => lastComposite[2] = lastComposite[1]

(***************************************************************************)
(* The compositor: utils/compositor.ts (compositeImage,                    *)
(* drawWrappedBandana) and its earlier revisions unnamed/part_003          *)
(* (compositeImage, drawWrappedBandana) and unnamed/part_004               *)
(* (getBandanaSegments, getForeheadPosition, lastValidSegments).           *)
(* A landmark array is [len, pts]: its length and, for the indices the     *)
(* code reads, the point <<x, y>> stored there or NULL (undefined).        *)
(***************************************************************************)
OUTPUT_WIDTH == 1080

OUTPUT_HEIGHT == 1920

\* the revisions of the compositor module; a program holds one of them
CompositorRevisions == {"compositor.ts", "part_003", "part_004"}

\* face-api.js 68-point model: eyebrow outer 17 / 26, inner 21 / 22
EyebrowIndices == {17, 21, 22, 26}

\* MediaPipe face mesh: forehead 10, temples 127 / 356, brows 70 300 105 334
SegmentIndices == {10, 70, 105, 127, 300, 334, 356}

LandmarkIndices == EyebrowIndices \cup SegmentIndices

\* landmarks[i]
At(lm, i) == IF i < lm.len THEN lm.pts[i] ELSE NULL

\* some landmarks[i], i in the set, is undefined
MissingAny(lm, indices) == \E i \in indices : At(lm, i) = NULL

\* lines 354-371 with the test of line 363 reversed: the frame is fitted
\* inside the output instead of covering it
CoverFit_contain(videoWidth, videoHeight, outWidth, outHeight) ==
    LET outputWidth  == Num(outWidth, 1)
        outputHeight == Num(outHeight, 1)
        videoAspect  == FDiv(Num(videoWidth, 1), Num(videoHeight, 1))
        outputAspect == FDiv(outputWidth, outputHeight)
    IN  IF FLt(videoAspect, outputAspect)
        THEN LET drawWidth == FMul(outputHeight, videoAspect)
             IN  <<FNeg(FDiv(FSub(drawWidth, outputWidth), Num(2, 1))), Zero,
                   drawWidth, outputHeight>>
        ELSE LET drawHeight == FDiv(outputWidth, videoAspect)
             IN  <<Zero, FNeg(FDiv(FSub(drawHeight, outputHeight), Num(2, 1))),
                   outputWidth, drawHeight>>

\* compositeImage lines 354-371: the rectangle <<offsetX, offsetY, drawWidth,
\* drawHeight>> the camera frame is drawn into on an output of
\* outWidth x outHeight
CoverFit(videoWidth, videoHeight, outWidth, outHeight) ==
    LET outputWidth  == Num(outWidth, 1)
        outputHeight == Num(outHeight, 1)
        videoAspect  == FDiv(Num(videoWidth, 1), Num(videoHeight, 1))
        outputAspect == FDiv(outputWidth, outputHeight)
    IN  IF FLt(outputAspect, videoAspect)
        THEN LET drawWidth == FMul(outputHeight, videoAspect)
             IN  <<FNeg(FDiv(FSub(drawWidth, outputWidth), Num(2, 1))), Zero,
                   drawWidth, outputHeight>>
        ELSE LET drawHeight == FDiv(outputWidth, videoAspect)
             IN  <<Zero, FNeg(FDiv(FSub(drawHeight, outputHeight), Num(2, 1))),
                   outputWidth, drawHeight>>

\* the validation both drawWrappedBandana revisions start with
CanDraw(image, lm) ==
    /\ lm.len >= 68
    /\ image = "ready"
    /\ ~MissingAny(lm, EyebrowIndices)

\* foreheadCenterX, eyebrowCenterY and faceWidth of drawWrappedBandana
BrowGeometry(lm, canvasWidth, canvasHeight) ==
    LET leftX  == FMul(At(lm, 17)[1], canvasWidth)
        rightX == FMul(At(lm, 26)[1], canvasWidth)
        sumY   == FAdd(FAdd(FAdd(At(lm, 17)[2], At(lm, 26)[2]),
                            At(lm, 21)[2]), At(lm, 22)[2])
    IN  <<FDiv(FAdd(leftX, rightX), Num(2, 1)),
          FMul(FDiv(sumY, Num(4, 1)), canvasHeight),
          FAbs(FSub(rightX, leftX))>>

\* compositor.ts drawWrappedBandana: NULL when it returns without drawing,
\* else <<foreheadCenterX, eyebrowCenterY, bandanaWidth, bandanaHeight>> of
\* the bandana it draws centred on foreheadCenterX
DrawWrappedBandana(image, lm, canvasWidth, canvasHeight, mirroredContext) ==
    IF ~CanDraw(image, lm) THEN NULL
    ELSE LET g == BrowGeometry(lm, canvasWidth, canvasHeight)
             bandanaWidth == FMul(g[3], Num(12, 10))
         IN  <<g[1], g[2], bandanaWidth, FMul(bandanaWidth, Num(35, 100))>>

\* part_003 drawWrappedBandana: the same, 1.4 face widths wide
DrawWrappedBandana_part003(image, lm, canvasWidth, canvasHeight) ==
    IF ~CanDraw(image, lm) THEN NULL
    ELSE LET g == BrowGeometry(lm, canvasWidth, canvasHeight)
             bandanaWidth == FMul(g[3], Num(14, 10))
         IN  <<g[1], g[2], bandanaWidth, FMul(bandanaWidth, Num(35, 100))>>

\* landmarks.map(point => ({ x: 1 - point.x, y: point.y }))
Unmirror(lm) ==
    [lm EXCEPT !.pts = [i \in LandmarkIndices |->
        IF lm.pts[i] = NULL THEN NULL
        ELSE <<FSub(One, lm.pts[i][1]), lm.pts[i][2]>>]]

\* the map callback throws on an undefined element
UnmirrorThrows(lm) == \E i \in LandmarkIndices : i < lm.len /\ lm.pts[i] = NULL

\* a placement drawn under ctx.translate(offsetX, offsetY)
Translated(rect, placement) ==
    IF placement = NULL THEN NULL
    ELSE <<FAdd(rect[1], placement[1]), FAdd(rect[2], placement[2]),
           placement[3], placement[4]>>

\* part_004 getBandanaSegments, its center segment <<x, y, width, height>>:
\* <<the value returned, the new lastValidSegments>>
GetBandanaSegments(lm, canvasWidth, canvasHeight, cache) ==
    IF MissingAny(lm, SegmentIndices)
    THEN IF cache # NULL THEN <<cache, cache>>
         ELSE <<<<FDiv(canvasWidth, Num(2, 1)),
                  FMul(canvasHeight, Num(2, 10)),
                  FMul(canvasWidth, Num(4, 10)),
                  FMul(canvasHeight, Num(15, 100))>>, cache>>
    ELSE LET centerX == FMul(At(lm, 10)[1], canvasWidth)
             centerY == FMul(At(lm, 10)[2], canvasHeight)
             sumY    == FAdd(FAdd(FAdd(At(lm, 70)[2], At(lm, 300)[2]),
                                  At(lm, 105)[2]), At(lm, 334)[2])
             avgBrowY == FMul(FDiv(sumY, Num(4, 1)), canvasHeight)
             rawBandanaHeight == FMul(FSub(avgBrowY, centerY), Num(22, 10))
             bandanaHeight == IF FLt(rawBandanaHeight, Num(30, 1))
                              THEN Num(30, 1) ELSE rawBandanaHeight
             faceWidth == FAbs(FSub(FMul(At(lm, 356)[1], canvasWidth),
                                    FMul(At(lm, 127)[1], canvasWidth)))
             segments == <<centerX, centerY, FMul(faceWidth, Num(6, 10)),
                           bandanaHeight>>
         IN  <<segments, segments>>

\* ---- inputs of the compositor machine ----
\* a point with coordinates a/8, b/8 (normalized to the camera frame)
Pt(a, b) == <<Num(a, 8), Num(b, 8)>>

\* a face-api.js detection: 68 points, eyebrows from x = lx/8 to x = rx/8
Face68(lx, rx) ==
    [len |-> 68,
     pts |-> [i \in LandmarkIndices |->
                CASE i = 17 -> Pt(lx, 3)
                  [] i = 26 -> Pt(rx, 3)
                  [] i = 21 -> Pt(3, 3)
                  [] i = 22 -> Pt(4, 3)
                  [] i = 10 -> Pt(5, 6)
                  [] OTHER  -> NULL]]

\* a MediaPipe face mesh: 468 points
Mesh468(lx, rx) ==
    [len |-> 468,
     pts |-> [i \in LandmarkIndices |->
                CASE i = 10  -> Pt(4, 1)
                  [] i = 127 -> Pt(lx, 2)
                  [] i = 356 -> Pt(rx, 2)
                  [] i = 70  -> Pt(lx, 3)
                  [] i = 300 -> Pt(rx, 3)
                  [] i = 105 -> Pt(3, 3)
                  [] i = 334 -> Pt(4, 3)
                  [] i = 17  -> Pt(4, 6)
                  [] i = 21  -> Pt(2, 2)
                  [] i = 22  -> Pt(2, 4)
                  [] OTHER   -> Pt(3, 5)]]

\* 68 entries with landmarks[26] undefined
Holed68(lx, rx) == [Face68(lx, rx) EXCEPT !.pts[26] = NULL]

\* an array of n < 10 points: none of the indices read exists
Short(n) == [len |-> n, pts |-> [i \in LandmarkIndices |-> NULL]]

LandmarkArrays ==
    {Face68(1, 6), Face68(2, 6), Mesh468(1, 6), Mesh468(2, 5), Holed68(2, 6),
     Short(5), Short(0)}

\* videoWidth x videoHeight of the camera frame
Videos == {<<640, 480>>, <<480, 640>>, <<1080, 1920>>, <<540, 840>>}

\* options.outputWidth x options.outputHeight: the default and another size
DefaultOutput == <<OUTPUT_WIDTH, OUTPUT_HEIGHT>>

Outputs == {DefaultOutput, <<1080, 1680>>}

\* bandanaImage: null, an image still loading (complete = false or
\* naturalWidth = 0), a loaded image
Images == {"null", "loading", "ready"}

\* compositor.ts compositeImage up to the overlay (lines 334-396)
CompositeImage(video, image, lm, output) ==
    \E rect \in {CoverFit(video[1], video[2], output[1], output[2])} :
        /\ compositorRevision = "compositor.ts"
        /\ call' = <<"compositeImage", video, image, lm, output>>
        /\ frameRect' = rect
        /\ IF image # "null" /\ lm.len > 0 /\ ~UnmirrorThrows(lm)
           THEN \E unmirroredLandmarks \in {Unmirror(lm)} :
                  /\ overlayCall' = <<unmirroredLandmarks, rect[3], rect[4],
                                      FALSE>>
                  /\ overlayDraw' = Translated(rect,
                         DrawWrappedBandana(image, unmirroredLandmarks,
                                            rect[3], rect[4], FALSE))
           ELSE /\ overlayCall' = NULL
                /\ overlayDraw' = NULL
        /\ returned' = NULL
        /\ UNCHANGED <<lastValidSegments, compositorRevision>>
        /\ UNCHANGED <<filterVars, trackVars, captureVars, meshVars, geomVars, canvasVars, wrapVars, cameraVars>>

\* part_003 compositeImage up to the overlay (lines 196-248), called as
\* handleCapture calls it, without outputWidth / outputHeight
CompositeImage_part003(video, image, lm) ==
    \E rect \in {CoverFit(video[1], video[2], OUTPUT_WIDTH, OUTPUT_HEIGHT)} :
        /\ compositorRevision = "part_003"
        /\ call' = <<"compositeImage_part003", video, image, lm,
                     DefaultOutput>>
        /\ frameRect' = rect
        /\ IF image # "null" /\ lm.len > 0
           THEN /\ overlayCall' = <<lm, rect[3], rect[4], FALSE>>
                /\ overlayDraw' = Translated(rect,
                       DrawWrappedBandana_part003(image, lm, rect[3], rect[4]))
           ELSE /\ overlayCall' = NULL
                /\ overlayDraw' = NULL
        /\ returned' = NULL
        /\ UNCHANGED <<lastValidSegments, compositorRevision>>
        /\ UNCHANGED <<filterVars, trackVars, captureVars, meshVars, geomVars, canvasVars, wrapVars, cameraVars>>

\* part_004 getForeheadPosition(landmarks, canvas.width, canvas.height), as
\* the preview of studio.tsx line 100 calls it with the canvas sized to the
\* video
GetForeheadPosition(video, lm) ==
    \E r \in {GetBandanaSegments(lm, Num(video[1], 1), Num(video[2], 1),
                                 lastValidSegments)} :
        /\ compositorRevision = "part_004"
        /\ call' = <<"getForeheadPosition", video, "null", lm, DefaultOutput>>
        /\ returned' = r[1]
        /\ lastValidSegments' = r[2]
        /\ frameRect' = NULL
        /\ overlayCall' = NULL
        /\ overlayDraw' = NULL
        /\ UNCHANGED compositorRevision
        /\ UNCHANGED <<filterVars, trackVars, captureVars, meshVars, geomVars, canvasVars, wrapVars, cameraVars>>

CompositeInit ==
    /\ CompositeStart
    /\ compositorRevision \in CompositorRevisions
    /\ FilterIdle /\ TrackIdle /\ CaptureIdle
    /\ MeshIdle /\ GeomIdle /\ CanvasIdle /\ WrapIdle /\ CameraIdle

CompositeNext ==
    \/ \E v \in Videos, i \in Images, lm \in LandmarkArrays, o \in Outputs :
           CompositeImage(v, i, lm, o)
    \/ \E v \in Videos, i \in Images, lm \in LandmarkArrays :
           CompositeImage_part003(v, i, lm)
    \/ \E v \in Videos, lm \in LandmarkArrays : GetForeheadPosition(v, lm)

SpecComposite == CompositeInit /\ [][CompositeNext]_vars

\* the call recorded is a compositeImage call (either revision)
IsCompositeCall == call # NULL /\ call[1] # "getForeheadPosition"

\* C1: whenever compositeImage calls the overlay, every landmark it passes
\* is the tracked landmark mapped x -> 1 - x with y unchanged, and
\* mirrored = false
C1_OverlayGetsUnmirroredLandmarks ==
    (IsCompositeCall /\ overlayCall # NULL) =>
        /\ overlayCall[4] = FALSE
        /\ \A i \in LandmarkIndices :
              At(call[4], i) # NULL =>
                  At(overlayCall[1], i) = <<FSub(One, At(call[4], i)[1]),
                                            At(call[4], i)[2]>>

\* C29: when the tracked landmarks have the left outer-eyebrow point (17)
\* to the left of the right one (26), so have the landmarks compositeImage
\* passes to the overlay
C29_EyebrowOrderKept ==
    (/\ IsCompositeCall /\ overlayCall # NULL
     /\ At(call[4], 17) # NULL /\ At(call[4], 26) # NULL
     /\ FLt(At(call[4], 17)[1], At(call[4], 26)[1])) =>
        FLt(At(overlayCall[1], 17)[1], At(overlayCall[1], 26)[1])

\* C2: the overlay drawn by compositeImage is centred at the output pixel
\* at which the camera frame's eyebrow midpoint is drawn:
\* x = offsetX + x_detected * drawWidth, y = offsetY + y_detected * drawHeight
C2_OverlayInFrameSpace ==
    (IsCompositeCall /\ overlayDraw # NULL) =>
        LET g == BrowGeometry(call[4], frameRect[3], frameRect[4])
        IN  /\ overlayDraw[1] = FAdd(frameRect[1], g[1])
            /\ overlayDraw[2] = FAdd(frameRect[2], g[2])

\* C8: with fewer than the required points, or a required index absent, the
\* overlay geometry produces nothing: no draw, no default, no cached value
C8_NothingWithoutLandmarks ==
    call # NULL =>
        IF call[1] = "getForeheadPosition"
        THEN MissingAny(call[4], SegmentIndices) => returned = NULL
        ELSE (call[4].len < 68 \/ MissingAny(call[4], EyebrowIndices))
                 => overlayDraw = NULL

\* the integer a number of integral value denotes (exponent >= 0)
IntOf(a) == a[2] * Pow2(a[3])

\* a <= b
FLe(a, b) == a = b \/ FLt(a, b)

\* the frame rectangle covers the output, fits it on one axis, keeps the
\* frame's aspect ratio to within two roundings and crops the overflow
\* equally on both sides
CoversOutput(rect, video, output) ==
    LET outputWidth  == Num(output[1], 1)
        outputHeight == Num(output[2], 1)
    IN  /\ FLe(outputWidth, rect[3])
        /\ FLe(outputHeight, rect[4])
        /\ rect[3] = outputWidth \/ rect[4] = outputHeight
        /\ AbsInt(IntOf(rect[3]) * video[2] - IntOf(rect[4]) * video[1])
               * Pow2(MantissaBits - 2) <= IntOf(rect[4]) * video[1]
        /\ rect[1] = FNeg(FDiv(FSub(rect[3], outputWidth), Num(2, 1)))
        /\ rect[2] = FNeg(FDiv(FSub(rect[4], outputHeight), Num(2, 1)))
        /\ IsZero(rect[1]) \/ IsZero(rect[2])

\* C20 (as stated): for every frame and every output size the frame is
\* drawn covering the output, aspect ratio kept, overflow cropped equally
C20_CoverFitEveryOutput ==
    (call # NULL /\ call[1] = "compositeImage") =>
        CoversOutput(frameRect, call[2], call[5])

\* C20 (amended): the same for the default output size 1080 x 1920
C20_CoverFitDefaultOutput ==
    (call # NULL /\ call[1] = "compositeImage" /\ call[5] = DefaultOutput) =>
        CoversOutput(frameRect, call[2], call[5])

\* a landscape frame drawn on the default output: the width overflows and
\* is cropped
C20_Witness ==
    /\ call # NULL /\ call[1] = "compositeImage" /\ call[5] = DefaultOutput
    /\ call[2] = <<640, 480>>
    /\ FLt(Num(OUTPUT_WIDTH, 1), frameRect[3])
    /\ FLt(frameRect[1], Zero)

(***************************************************************************)
(* hooks/useFaceTracking.ts, the MediaPipe FaceMesh revision (lines        *)
(* 256-415; lines 129-254 differ in logging only and in leaving isTracking *)
(* alone on a no-face result): the onResults callback smooths every        *)
(* landmark with its own PointFilter kept in filtersRef.  The model        *)
(* follows landmark 0 of the result.  filter() is called without a         *)
(* timestamp, so both coordinate filters read performance.now().           *)
(***************************************************************************)
\* a fresh OneEuroFilter: <<xFilter, dxFilter, lastTime>>
NewOneEuroFilter == <<NewLowPassFilter, NewLowPassFilter, NULL>>

\* new PointFilter(config): <<xFilter, yFilter>>
NewPointFilter == <<NewOneEuroFilter, NewOneEuroFilter>>

\* PointFilter.reset()
PointFilter_reset(pf) == <<NewOneEuroFilter, NewOneEuroFilter>>

\* the OneEuroFilter a filter() call leaves, from what the call computed
FilterAfter(r) == <<r.xFilter, r.dxFilter, r.lastTime>>

\* PointFilter.filter(point, now): the new PointFilter and the point returned
PointFilter_filter(pf, cfg, point, now) ==
    LET rx == OneEuroFilter_filter(pf[1][1], pf[1][2], pf[1][3], cfg,
                                   point[1], now)
        ry == OneEuroFilter_filter(pf[2][1], pf[2][2], pf[2][3], cfg,
                                   point[2], now)
    IN  [pf |-> <<FilterAfter(rx), FilterAfter(ry)>>,
         out |-> <<rx.out, ry.out>>]

\* ---- inputs of the FaceMesh machine ----
MaxResults == 3

\* raw detector points of landmark 0
MeshPoints == {<<Num(1, 4), Num(1, 2)>>, <<Num(3, 4), Num(1, 2)>>,
               <<Num(3, 4), Num(77, 256)>>}

\* time between two detector results, ms
ResultGaps == {33, 100}

\* initialize(videoElement), its model load resolved: faceMeshRef is set
MeshInitialize ==
    /\ ~faceMeshRef
    /\ faceMeshRef' = TRUE
    /\ lastResultKind' = "none"
    /\ reacquired' = FALSE
    /\ UNCHANGED <<filtersRef, smoothedLandmarks, meshTracking, rawLandmarks,
                   perfNow, everFace, results>>
    /\ UNCHANGED <<filterVars, trackVars, captureVars, compositeVars, geomVars, canvasVars, wrapVars, cameraVars>>

\* onResults with a face whose landmark 0 is point, gap ms after the
\* previous result (lines 329-361)
OnResultsFace(point, gap) ==
    /\ faceMeshRef
    /\ results < MaxResults
    /\ results' = results + 1
    /\ perfNow' = perfNow + gap
    /\ rawLandmarks' = point
    /\ \E r \in {PointFilter_filter(
                    IF filtersRef = NULL THEN NewPointFilter ELSE filtersRef,
                    DefaultConfig, point, Num(perfNow + gap, 1))} :
           /\ filtersRef' = r.pf
           /\ smoothedLandmarks' = r.out
    /\ meshTracking' = TRUE
    /\ reacquired' = (lastResultKind = "noface" /\ everFace)
    /\ everFace' = TRUE
    /\ lastResultKind' = "face"
    /\ UNCHANGED faceMeshRef
    /\ UNCHANGED <<filterVars, trackVars, captureVars, compositeVars, geomVars, canvasVars, wrapVars, cameraVars>>

\* onResults without a face (lines 323-327): the slot is cleared; the
\* filters are left as they are
OnResultsNoFace(gap) ==
    /\ faceMeshRef
    /\ results < MaxResults
    /\ results' = results + 1
    /\ perfNow' = perfNow + gap
    /\ smoothedLandmarks' = NULL
    /\ meshTracking' = FALSE
    /\ reacquired' = FALSE
    /\ lastResultKind' = "noface"
    /\ UNCHANGED <<faceMeshRef, filtersRef, rawLandmarks, everFace>>
    /\ UNCHANGED <<filterVars, trackVars, captureVars, compositeVars, geomVars, canvasVars, wrapVars, cameraVars>>

\* stop() (lines 386-400): closes the detector and clears filtersRef
MeshStop ==
    /\ faceMeshRef' = FALSE
    /\ filtersRef' = NULL
    /\ smoothedLandmarks' = NULL
    /\ meshTracking' = FALSE
    /\ reacquired' = FALSE
    /\ everFace' = FALSE
    /\ lastResultKind' = "stop"
    /\ UNCHANGED <<rawLandmarks, perfNow, results>>
    /\ UNCHANGED <<filterVars, trackVars, captureVars, compositeVars, geomVars, canvasVars, wrapVars, cameraVars>>

MeshInit ==
    /\ MeshStart
    /\ FilterIdle /\ TrackIdle /\ CaptureIdle /\ CompositeIdle /\ GeomIdle
    /\ CanvasIdle /\ WrapIdle /\ CameraIdle

MeshNext ==
    \/ MeshInitialize
    \/ \E p \in MeshPoints, g \in ResultGaps : OnResultsFace(p, g)
    \/ \E g \in ResultGaps : OnResultsNoFace(g)
    \/ MeshStop

SpecMesh == MeshInit /\ [][MeshNext]_vars

\* C13: the first smoothed landmark after the face was lost and reacquired
\* is the raw detector point
C13_ReacquiredFaceIsUnsmoothed ==
    reacquired => smoothedLandmarks = rawLandmarks

(***************************************************************************)
(* utils/compositor.ts: calculateQuadTransform and calculateHeadYaw.       *)
(* A triangle is given on an integer grid, <<scale, p0, p1, p2>> with the  *)
(* points' coordinates multiples of 2^-scale, so that its determinant is   *)
(* known exactly (GridDet) beside the value the code computes.             *)
(***************************************************************************)
\* the literal 1e-10 (220 * 2^-41)
Epsilon == <<0, 220, -41>>

\* Math.max / Math.min of two numbers: NaN if either is NaN
MathMax(a, b) == IF IsNaN(a) \/ IsNaN(b) THEN NaN ELSE IF FLt(a, b) THEN b ELSE a

MathMin(a, b) == IF IsNaN(a) \/ IsNaN(b) THEN NaN ELSE IF FLt(b, a) THEN b ELSE a

\* the point {x, y} of grid point p at the given scale
GridPoint(scale, p) == <<Num(p[1], Pow2(scale)), Num(p[2], Pow2(scale))>>

\* the three points of a grid triangle
QuadPoints(t) == <<GridPoint(t[1], t[2]), GridPoint(t[1], t[3]),
                   GridPoint(t[1], t[4])>>

\* the exact determinant of a grid triangle, in units of 4^-scale
GridDet(t) ==
    t[2][1] * (t[3][2] - t[4][2]) - t[3][1] * (t[2][2] - t[4][2])
        + t[4][1] * (t[2][2] - t[3][2])

\* p0 * (q1 - q2) - p1 * (q0 - q2) + p2 * (q0 - q1), as lines 94 and 101-104
\* evaluate it
Cross3(p0, p1, p2, q0, q1, q2) ==
    FAdd(FSub(FMul(p0, FSub(q1, q2)), FMul(p1, FSub(q0, q2))),
         FMul(p2, FSub(q0, q1)))

\* x0 * (y1*w2 - y2*w1) - x1 * (y0*w2 - y2*w0) + x2 * (y0*w1 - y1*w0), as
\* lines 105-106 evaluate it
Cross3w(x0, x1, x2, y0, y1, y2, w0, w1, w2) ==
    FAdd(FSub(FMul(x0, FSub(FMul(y1, w2), FMul(y2, w1))),
              FMul(x1, FSub(FMul(y0, w2), FMul(y2, w0)))),
         FMul(x2, FSub(FMul(y0, w1), FMul(y1, w0))))

\* { a: 1, b: 0, c: 0, d: 1, e: 0, f: 0 }
IdentityTransform == <<One, Zero, Zero, One, Zero, Zero>>

\* calculateQuadTransform(srcQuad, dstQuad) on the points src and dst:
\* <<a, b, c, d, e, f>>
CalculateQuadTransform(src, dst) ==
    LET x0 == src[1][1]  y0 == src[1][2]
        x1 == src[2][1]  y1 == src[2][2]
        x2 == src[3][1]  y2 == src[3][2]
        u0 == dst[1][1]  v0 == dst[1][2]
        u1 == dst[2][1]  v1 == dst[2][2]
        u2 == dst[3][1]  v2 == dst[3][2]
        denom == Cross3(x0, x1, x2, y0, y1, y2)
    IN  IF FLt(FAbs(denom), Epsilon) THEN IdentityTransform
        ELSE <<FDiv(Cross3(u0, u1, u2, y0, y1, y2), denom),
               FDiv(Cross3(v0, v1, v2, y0, y1, y2), denom),
               FDiv(Cross3(x0, x1, x2, u0, u1, u2), denom),
               FDiv(Cross3(x0, x1, x2, v0, v1, v2), denom),
               FDiv(Cross3w(x0, x1, x2, y0, y1, y2, u0, u1, u2), denom),
               FDiv(Cross3w(x0, x1, x2, y0, y1, y2, v0, v1, v2), denom)>>

\* the image of point p under the coefficients k:
\* <<a*x + c*y + e, b*x + d*y + f>>
ApplyTransform(k, p) ==
    <<FAdd(FAdd(FMul(k[1], p[1]), FMul(k[3], p[2])), k[5]),
      FAdd(FAdd(FMul(k[2], p[1]), FMul(k[4], p[2])), k[6])>>

\* landmark indices calculateHeadYaw reads: jaw 0 / 16, nose bridge 27, tip 30
YawIndices == {0, 16, 27, 30}

\* noseOffsetX * 300, negated when isMirrored (lines 128-142)
ScaledYaw(lm, isMirrored) ==
    LET faceCenterX == FDiv(FAdd(At(lm, 0)[1], At(lm, 16)[1]), Num(2, 1))
        noseOffsetX == FSub(At(lm, 30)[1], faceCenterX)
        angle       == FMul(noseOffsetX, Num(300, 1))
    IN  IF isMirrored THEN FNeg(angle) ELSE angle

\* Math.max(lo, Math.min(hi, angle)) without the upper limit
Clamp_noUpperLimit(lo, hi, angle) == MathMax(lo, angle)

\* Math.max(lo, Math.min(hi, angle))
Clamp(lo, hi, angle) == MathMax(lo, MathMin(hi, angle))

\* calculateHeadYaw(landmarks, isMirrored)
CalculateHeadYaw(lm, isMirrored) ==
    IF MissingAny(lm, YawIndices) THEN Zero
    ELSE Clamp(Num(-60, 1), Num(60, 1), ScaledYaw(lm, isMirrored))

\* ---- inputs of the geometry machine ----
\* source triangles: the unit triangle, a skew one, a small one, and two
\* triples of points on the line y = x
SrcQuads ==
    {<<0, <<0, 0>>, <<1, 0>>, <<0, 1>>>>,
     <<0, <<0, 0>>, <<1, 2>>, <<3, 1>>>>,
     <<20, <<0, 0>>, <<1, 0>>, <<0, 1>>>>,
     <<0, <<0, 0>>, <<1, 1>>, <<2, 2>>>>,
     <<0, <<241, 241>>, <<194, 194>>, <<107, 107>>>>}

DstQuads ==
    {<<0, <<0, 0>>, <<1, 0>>, <<0, 1>>>>,
     <<0, <<5, 5>>, <<6, 5>>, <<5, 6>>>>,
     <<0, <<2, 1>>, <<7, 3>>, <<4, 9>>>>}

\* a landmark array holding the jaw at x = l/8 and r/8, the nose tip at
\* x = n/8
YawFace(l, r, n) ==
    [len |-> 68,
     pts |-> [i \in YawIndices |->
                CASE i = 0  -> Pt(l, 4)
                  [] i = 16 -> Pt(r, 4)
                  [] i = 27 -> Pt(4, 3)
                  [] i = 30 -> Pt(n, 5)]]

YawLandmarks ==
    {YawFace(l, r, n) : l \in {0, 1, 2}, r \in {5, 6, 8}, n \in 0..8}
        \cup {[YawFace(2, 6, 4) EXCEPT !.pts[30] = NULL],
              [len |-> 16, pts |-> [i \in YawIndices |-> Pt(4, 4)]]}

\* a call of calculateQuadTransform (the variables hold the latest helper
\* call only)
QuadTransformCall(srcQuad, dstQuad) ==
    /\ quadCall' = <<srcQuad, dstQuad>>
    /\ quadReturned' = CalculateQuadTransform(QuadPoints(srcQuad),
                                              QuadPoints(dstQuad))
    /\ yawCall' = NULL
    /\ yawReturned' = NULL
    /\ UNCHANGED <<filterVars, trackVars, captureVars, compositeVars,
                   meshVars, canvasVars, wrapVars, cameraVars>>

\* a call of calculateHeadYaw
HeadYawCall(lm, isMirrored) ==
    /\ yawCall' = <<lm, isMirrored>>
    /\ yawReturned' = CalculateHeadYaw(lm, isMirrored)
    /\ quadCall' = NULL
    /\ quadReturned' = NULL
    /\ UNCHANGED <<filterVars, trackVars, captureVars, compositeVars,
                   meshVars, canvasVars, wrapVars, cameraVars>>

GeomInit ==
    /\ GeomStart
    /\ FilterIdle /\ TrackIdle /\ CaptureIdle /\ CompositeIdle /\ MeshIdle
    /\ CanvasIdle /\ WrapIdle /\ CameraIdle

GeomNext ==
    \/ \E s \in SrcQuads, d \in DstQuads : QuadTransformCall(s, d)
    \/ \E lm \in YawLandmarks, mirrored \in BOOLEAN : HeadYawCall(lm, mirrored)

SpecGeometry == GeomInit /\ [][GeomNext]_vars

\* C14: for a source triangle with non-zero determinant the coefficients
\* returned map each source point onto its destination point
C14_TransformMapsSourceOntoDestination ==
    (quadCall # NULL /\ GridDet(quadCall[1]) # 0) =>
        \A i \in 1..3 :
            ApplyTransform(quadReturned, QuadPoints(quadCall[1])[i])
                = QuadPoints(quadCall[2])[i]

\* C15: for three collinear source points (zero determinant) the identity
\* coefficients are returned, whatever the destination
C15_CollinearGivesIdentity ==
    (quadCall # NULL /\ GridDet(quadCall[1]) = 0) =>
        quadReturned = IdentityTransform

\* C16: calculateHeadYaw returns a value in [-60, 60], and exactly 60 or -60
\* when the scaled nose offset (negated if mirrored) lies beyond that
C16_YawClamped ==
    yawCall # NULL =>
        /\ ~FLt(yawReturned, Num(-60, 1))
        /\ ~FLt(Num(60, 1), yawReturned)
        /\ IsFinite(yawReturned)
        /\ ~MissingAny(yawCall[1], YawIndices) =>
              LET raw == ScaledYaw(yawCall[1], yawCall[2])
              IN  /\ FLt(Num(60, 1), raw) => yawReturned = Num(60, 1)
                  /\ FLt(raw, Num(-60, 1)) => yawReturned = Num(-60, 1)
                  /\ (~FLt(Num(60, 1), raw) /\ ~FLt(raw, Num(-60, 1)))
                         => yawReturned = raw

\* a call whose scaled nose offset is 200 or more and which returned 60
C16_Witness ==
    /\ yawCall # NULL
    /\ ~MissingAny(yawCall[1], YawIndices)
    /\ ~FLt(ScaledYaw(yawCall[1], yawCall[2]), Num(200, 1))
    /\ yawReturned = Num(60, 1)

(***************************************************************************)
(* utils/compositor.ts: what compositeImage and drawWrappedBandana do to   *)
(* the drawing context, and how a compositeImage call ends.  A context is  *)
(* [stack, transform, alpha]: the saved states, the transforms applied     *)
(* since the identity (named, in order), and globalAlpha.  A draw is       *)
(* recorded with the transform and alpha in effect.                        *)
(***************************************************************************)
\* ctx.save()
CtxSave(c) == [c EXCEPT !.stack = Append(@, <<c.transform, c.alpha>>)]

\* ctx.restore(): pops the latest saved state; nothing if there is none
CtxRestore(c) ==
    IF c.stack = <<>> THEN c
    ELSE [stack     |-> SubSeq(c.stack, 1, Len(c.stack) - 1),
          transform |-> c.stack[Len(c.stack)][1],
          alpha     |-> c.stack[Len(c.stack)][2]]

\* ctx.translate / ctx.rotate / ctx.scale
CtxTransform(c, op) == [c EXCEPT !.transform = Append(@, op)]

\* ctx.globalAlpha = a
CtxAlpha(c, a) == [c EXCEPT !.alpha = a]

\* ctx.drawImage(layer, ...)
Drawn(layers, layer, c) == Append(layers, <<layer, c.transform, c.alpha>>)

\* the slice loop of drawWrappedBandana (lines 264-305) from slice i on, for
\* n slices; the drawImage of slice throwAt throws
RECURSIVE DrawSlices(_, _, _, _, _)
DrawSlices(c, layers, i, n, throwAt) ==
    IF i > n THEN [ctx |-> c, layers |-> layers, threw |-> FALSE]
    ELSE LET c1 == CtxAlpha(CtxTransform(CtxTransform(CtxSave(c),
                       "slice.translate"), "slice.scale"), "brightness")
         IN  IF i = throwAt
             THEN [ctx |-> c1, layers |-> layers, threw |-> TRUE]
             ELSE DrawSlices(CtxRestore(c1), Drawn(layers, "slice", c1),
                             i + 1, n, throwAt)

\* drawWrappedBandana(ctx, bandanaImage, landmarks, ...): the context and
\* the draws it leaves.  An error thrown inside is caught at line 309.
DrawWrappedBandana_context(c, layers, image, lm, n, throwAt) ==
    IF ~CanDraw(image, lm) THEN [ctx |-> c, layers |-> layers]
    ELSE LET c1 == CtxTransform(CtxTransform(CtxSave(c), "forehead"), "tilt")
             r  == DrawSlices(c1, layers, 1, n, throwAt)
         IN  IF r.threw THEN [ctx |-> r.ctx, layers |-> r.layers]
             ELSE [ctx |-> CtxRestore(r.ctx), layers |-> r.layers]

\* ---- inputs of the canvas machine ----
\* slices drawn (sliceData.length; numSlices is 80)
MaxSlices == 3

CanvasLandmarks == {Face68(1, 6), Holed68(2, 6), Short(5), Short(0)}

\* handleCapture, pressed on the live view, calls compositeImage(options),
\* which runs up to its await of the logo (lines 334-399)
CanvasComposite(image, lm, n, throwAt) ==
    /\ canvasPhase \in {"idle", "handled"}
    /\ pageShows' = "camera"
    /\ canvasInput' = <<image, lm, n, throwAt>>
    /\ canvasFailure' = "none"
    /\ canvasPhase' = "logo"
    /\ \E base \in {Drawn(Drawn(<<>>, "background", FreshContext), "video",
                          FreshContext)} :
          IF image # "null" /\ lm.len > 0
          THEN IF UnmirrorThrows(lm)
               THEN \* landmarks.map throws: catch, ctx.restore()
                    /\ canvasCtx' = CtxRestore(FreshContext)
                    /\ canvasLayers' = base
                    /\ overlayCalled' = FALSE
                    /\ UNCHANGED <<overlayEntry, overlayExit>>
               ELSE \E c1 \in {CtxTransform(CtxSave(FreshContext), "offset")} :
                    \E r \in {DrawWrappedBandana_context(c1, base, image,
                                  Unmirror(lm), n, throwAt)} :
                        /\ overlayCalled' = TRUE
                        /\ overlayEntry' = c1
                        /\ overlayExit' = r.ctx
                        /\ canvasCtx' = CtxRestore(r.ctx)
                        /\ canvasLayers' = r.layers
          ELSE /\ canvasCtx' = FreshContext
               /\ canvasLayers' = base
               /\ overlayCalled' = FALSE
               /\ UNCHANGED <<overlayEntry, overlayExit>>
    /\ UNCHANGED <<filterVars, trackVars, captureVars, compositeVars,
                   meshVars, geomVars, wrapVars, cameraVars>>

\* loadImage(survivorLogo) resolves: the logo is drawn (lines 400-410) and
\* toBlob is called.  drawImage draws nothing for an image of zero width.
LogoLoaded(zeroWidth) ==
    /\ canvasPhase = "logo"
    /\ canvasLayers' = IF zeroWidth THEN canvasLayers
                       ELSE Drawn(canvasLayers, "logo", canvasCtx)
    /\ canvasPhase' = "blob"
    /\ UNCHANGED <<canvasCtx, canvasInput, overlayCalled, overlayEntry,
                   overlayExit, canvasFailure, pageShows>>
    /\ UNCHANGED <<filterVars, trackVars, captureVars, compositeVars,
                   meshVars, geomVars, wrapVars, cameraVars>>

\* loadImage(survivorLogo) rejects (img.onerror): the await at line 399
\* throws and compositeImage rejects
LogoFailed ==
    /\ canvasPhase = "logo"
    /\ canvasPhase' = "rejected"
    /\ canvasFailure' = "logo"
    /\ UNCHANGED <<canvasCtx, canvasLayers, canvasInput, overlayCalled,
                   overlayEntry, overlayExit, pageShows>>
    /\ UNCHANGED <<filterVars, trackVars, captureVars, compositeVars,
                   meshVars, geomVars, wrapVars, cameraVars>>

\* the toBlob callback (lines 413-425): resolve(blob), or reject when the
\* encoder yields null
ToBlobCallback(blob) ==
    /\ canvasPhase = "blob"
    /\ canvasPhase' = IF blob THEN "resolved" ELSE "rejected"
    /\ canvasFailure' = IF blob THEN "none" ELSE "blob"
    /\ UNCHANGED <<canvasCtx, canvasLayers, canvasInput, overlayCalled,
                   overlayEntry, overlayExit, pageShows>>
    /\ UNCHANGED <<filterVars, trackVars, captureVars, compositeVars,
                   meshVars, geomVars, wrapVars, cameraVars>>

\* handleCapture resumes from `await compositeImage(...)`: with the blob it
\* calls setCapturedImage and setShowPreview(true); on a rejection its catch
\* block logs to the console and sets nothing
HandleCaptureSettled ==
    /\ canvasPhase \in {"resolved", "rejected"}
    /\ canvasPhase' = "handled"
    /\ pageShows' = IF canvasPhase = "resolved" THEN "preview" ELSE pageShows
    /\ UNCHANGED <<canvasCtx, canvasLayers, canvasInput, overlayCalled,
                   overlayEntry, overlayExit, canvasFailure>>
    /\ UNCHANGED <<filterVars, trackVars, captureVars, compositeVars,
                   meshVars, geomVars, wrapVars, cameraVars>>

CanvasInit ==
    /\ CanvasStart
    /\ FilterIdle /\ TrackIdle /\ CaptureIdle /\ CompositeIdle /\ MeshIdle
    /\ GeomIdle /\ WrapIdle /\ CameraIdle

CanvasNext ==
    \/ \E image \in Images, lm \in CanvasLandmarks, n \in 1..MaxSlices,
          throwAt \in 0..MaxSlices : CanvasComposite(image, lm, n, throwAt)
    \/ \E zeroWidth \in BOOLEAN : LogoLoaded(zeroWidth)
    \/ LogoFailed
    \/ \E blob \in BOOLEAN : ToBlobCallback(blob)
    \/ HandleCaptureSettled

SpecCanvas == CanvasInit /\ [][CanvasNext]_vars

\* the transform a slice is drawn under: the frame offset, the forehead
\* position and tilt, then that slice's own translate and scale
SliceTransform ==
    <<"offset", "forehead", "tilt", "slice.translate", "slice.scale">>

\* C17: drawWrappedBandana leaves the context (save/restore depth,
\* transform, alpha) as it found it on every exit path, the overlay block of
\* compositeImage leaves the context as it was before the block, and each
\* slice is drawn under its own transform only
C17_ContextRestored ==
    /\ overlayCalled => overlayExit = overlayEntry
    /\ canvasPhase # "idle" => canvasCtx = FreshContext
    /\ \A k \in 1..Len(canvasLayers) :
          canvasLayers[k][1] = "slice" =>
              canvasLayers[k][2] = SliceTransform

\* C18: an image that is not ready costs its own draw only: without a ready
\* bandana the background and the frame are still drawn, and a logo that
\* fails to load does not reject the call
C18_AssetNotReadySkipsOnlyItsDraw ==
    /\ (canvasInput # NULL /\ canvasInput[1] # "ready") =>
          /\ \A k \in 1..Len(canvasLayers) : canvasLayers[k][1] # "slice"
          /\ \E k \in 1..Len(canvasLayers) : canvasLayers[k][1] = "video"
    /\ canvasPhase = "rejected" => canvasFailure # "logo"

\* C19: when the canvas yields no blob the compositeImage call is rejected,
\* never resolved with an empty result, and once handleCapture has dealt
\* with the rejection the page shows the user an error
C19_EncodeFailureReachesUser ==
    /\ canvasFailure = "blob" => canvasPhase \in {"rejected", "handled"}
    /\ (canvasFailure = "blob" /\ canvasPhase = "handled") =>
           pageShows = "error"

(***************************************************************************)
(* utils/compositor.ts, drawWrappedBandana lines 212-305: the slices of    *)
(* the curved overlay.  Numbers of this section are fixed-point with       *)
(* Scale units to 1: angles in 1/Scale radian, z and scale in 1/Scale,     *)
(* lateral positions and widths in 1/Scale pixel.                          *)
(***************************************************************************)
Scale == 10000

\* Math.PI
Pi == (355 * Scale) \div 113

\* const numSlices = 80
NumSlices == 80

\* the limit of calculateHeadYaw, in degrees
MaxYaw == 60

\* the sum t - t*x^2/((k+1)(k+2)) + ... of a sine or cosine series, for
\* x >= 0 and first term t
RECURSIVE SeriesSum(_, _, _)
SeriesSum(t, x, k) ==
    IF t = 0 THEN 0
    ELSE t - SeriesSum(((((t * x) \div Scale) * x) \div Scale)
                           \div ((k + 1) * (k + 2)), x, k + 2)

\* Math.sin
Sin(x) == IF x < 0 THEN -SeriesSum(-x, -x, 1) ELSE SeriesSum(x, x, 1)

\* Math.cos
Cos(x) == SeriesSum(Scale, AbsInt(x), 0)

\* Math.max / Math.abs on fixed-point numbers
MaxInt(a, b) == IF a >= b THEN a ELSE b

\* lines 230-252: the sample of index i (0-based) for yaw degrees and a
\* bandana width of w pixels
SliceSample(i, yaw, w) ==
    LET normalizedPos  == (i * 2 * Scale) \div (NumSlices - 1) - Scale
        angle          == (normalizedPos * Pi) \div (2 * Scale)
        effectiveAngle == angle + (yaw * Pi * 3) \div 1800
        z              == Cos(effectiveAngle)
        perspective    == (3 * Scale) \div 2
    IN  [index |-> i,
         x     |-> (Sin(effectiveAngle) * w) \div 2,
         z     |-> z,
         scale |-> (perspective * Scale)
                       \div (perspective + (Scale - z) \div 2)]

\* if (z >= -0.3) sliceData.push(...)
OnFront(sample) == sample.z >= -((3 * Scale) \div 10)

\* sliceData before the sort: the samples kept, in index order
RECURSIVE SliceData(_, _, _)
SliceData(i, yaw, w) ==
    IF i >= NumSlices THEN <<>>
    ELSE LET sample == SliceSample(i, yaw, w)
         IN  (IF OnFront(sample) THEN <<sample>> ELSE <<>>)
                 \o SliceData(i + 1, yaw, w)

\* sliceData.sort((a, b) => a.z - b.z): ascending z, stable.  rank[j] is the
\* place of element j after the sort.
SortRank(d) ==
    [j \in 1..Len(d) |->
        1 + Cardinality({k \in 1..Len(d) :
                \/ d[k].z < d[j].z
                \/ (d[k].z = d[j].z /\ k < j)})]

Sorted(d, rank) ==
    [p \in 1..Len(d) |-> d[CHOOSE j \in 1..Len(d) : rank[j] = p]]

\* let sliceWidth = bandanaWidth / numSlices * 2.0 with the factor halved
\* twice: no overlap between slices
BaseSliceWidth_noOverlap(w) == (w * Scale) \div (NumSlices * 2)

\* let sliceWidth = bandanaWidth / numSlices * 2.0
BaseSliceWidth(w) == (w * Scale * 2) \div NumSlices

\* lines 264-277: the width of the slice at place i of sliceData
SliceWidth(sliceData, i, w) ==
    IF i > 1 /\ i < Len(sliceData)
    THEN MaxInt(BaseSliceWidth(w),
                (AbsInt(sliceData[i + 1].x - sliceData[i - 1].x) * 3) \div 4)
    ELSE BaseSliceWidth(w)

\* bandanaWidth = faceWidth * 1.2, in pixels
BandanaWidths == {0, 96, 240}

YawValues == (-MaxYaw)..MaxYaw

\* drawWrappedBandana from line 212 on, for the head yaw (degrees) and the
\* bandana width of the call: collect the samples, sort them, draw every
\* slice
DrawWrappedBandanaSlices(yaw, w) ==
    /\ wrapCall = <<yaw, w>>
    /\ wrapDrawn = <<>>
    /\ UNCHANGED wrapCall
    /\ \E d \in {SliceData(0, yaw, w)} :
       \E rank \in {SortRank(d)} :
       \E sliceData \in {Sorted(d, rank)} :
           wrapDrawn' = [i \in 1..Len(sliceData) |->
                            [index |-> sliceData[i].index,
                             x     |-> sliceData[i].x,
                             z     |-> sliceData[i].z,
                             scale |-> sliceData[i].scale,
                             width |-> SliceWidth(sliceData, i, w)]]
    /\ UNCHANGED <<filterVars, trackVars, captureVars, compositeVars,
                   meshVars, geomVars, canvasVars, cameraVars>>

\* a call of drawWrappedBandana that has reached line 212, with its head
\* yaw and bandana width
WrapInit ==
    /\ wrapCall \in {<<yaw, w>> : yaw \in YawValues, w \in BandanaWidths}
    /\ wrapDrawn = <<>>
    /\ FilterIdle /\ TrackIdle /\ CaptureIdle /\ CompositeIdle /\ MeshIdle
    /\ GeomIdle /\ CanvasIdle /\ CameraIdle

WrapNext ==
    \E yaw \in YawValues, w \in BandanaWidths :
        DrawWrappedBandanaSlices(yaw, w)

SpecWrap == WrapInit /\ [][WrapNext]_vars

\* the lateral distance from drawn slice i to the nearest other drawn slice
NearestGap(i) ==
    CHOOSE g \in {AbsInt(wrapDrawn[i].x - wrapDrawn[j].x) :
                      j \in (1..Len(wrapDrawn)) \ {i}} :
        \A j \in (1..Len(wrapDrawn)) \ {i} :
            g <= AbsInt(wrapDrawn[i].x - wrapDrawn[j].x)

\* the width a slice covers on the canvas: its width under ctx.scale
DestinationWidth(i) ==
    (wrapDrawn[i].width \div Scale) * wrapDrawn[i].scale
        + ((wrapDrawn[i].width % Scale) * wrapDrawn[i].scale) \div Scale

\* C21: slices are drawn in ascending depth order, and no drawn slice is
\* narrower on the canvas than the lateral gap to its nearest neighbour
C21_DepthOrderAndNoSeam ==
    /\ \A i \in 1..(Len(wrapDrawn) - 1) : wrapDrawn[i].z <= wrapDrawn[i + 1].z
    /\ Len(wrapDrawn) >= 2 =>
           \A i \in 1..Len(wrapDrawn) : DestinationWidth(i) >= NearestGap(i)

\* a turned head: the last sample lies on the back of the head and is
\* skipped, the others are drawn, some of them past the fold of the cylinder
C21_Witness ==
    /\ wrapCall = <<MaxYaw, 240>>
    /\ Len(wrapDrawn) = NumSlices - 1
    /\ \E i \in 1..Len(wrapDrawn) : wrapDrawn[i].z < 0
    /\ \E i \in 1..Len(wrapDrawn) : NearestGap(i) > 0

\* the place in wrapDrawn of the sample of index n, 0 if it was not drawn
PlaceOf(n) ==
    IF \E i \in 1..Len(wrapDrawn) : wrapDrawn[i].index = n
    THEN CHOOSE i \in 1..Len(wrapDrawn) : wrapDrawn[i].index = n
    ELSE 0

\* C22: the width of a slice whose two neighbouring samples (indices i-1 and
\* i+1) are drawn is derived from the lateral positions of those samples
C22_WidthFromNeighbouringSamples ==
    \A i \in 2..(Len(wrapDrawn) - 1) :
        LET n == wrapDrawn[i].index
        IN  (PlaceOf(n - 1) # 0 /\ PlaceOf(n + 1) # 0) =>
                wrapDrawn[i].width =
                    MaxInt(BaseSliceWidth(wrapCall[2]),
                           (AbsInt(wrapDrawn[PlaceOf(n + 1)].x
                                   - wrapDrawn[PlaceOf(n - 1)].x) * 3) \div 4)

(***************************************************************************)
(* hooks/useCamera.ts: startCamera and stopCamera.  The video element is   *)
(* mounted (videoRef.current is set).  A stream has the id of the          *)
(* getUserMedia request that returned it; it is live until its tracks are  *)
(* stopped.                                                                *)
(***************************************************************************)
MaxStarts == 3

MaxStops == 2

\* startCamera() up to its return or its await of getUserMedia; dev is
\* import.meta.env.DEV
StartCamera(dev) ==
    /\ nextRequest <= MaxStarts
    /\ stoppedLast' = FALSE
    /\ IF startedRef /\ streamRef # NoStream
       THEN \* already running: attach the stream to the video if need be;
            \* the handler set at line 28 plays and does not set isReady
            /\ srcObject' = streamRef
            /\ metadataHandler' = (metadataHandler /\ srcObject = streamRef)
            /\ UNCHANGED <<mediaRequests, nextRequest>>
       ELSE IF startedRef /\ dev
       THEN UNCHANGED <<srcObject, metadataHandler, mediaRequests,
                        nextRequest>>
       ELSE /\ mediaRequests' = mediaRequests \cup
                   {[id |-> nextRequest, stage |-> "getUserMedia"]}
            /\ nextRequest' = nextRequest + 1
            /\ UNCHANGED <<srcObject, metadataHandler>>
    /\ UNCHANGED <<streamRef, startedRef, isReady, permissionState,
                   liveStreams, cameraStops>>
    /\ UNCHANGED <<filterVars, trackVars, captureVars, compositeVars,
                   meshVars, geomVars, canvasVars, wrapVars>>

\* getUserMedia resolves with a stream: startCamera awaits applyConstraints
MediaResolves(r) ==
    /\ r \in mediaRequests
    /\ r.stage = "getUserMedia"
    /\ mediaRequests' = (mediaRequests \ {r}) \cup
           {[r EXCEPT !.stage = "applyConstraints"]}
    /\ liveStreams' = liveStreams \cup {r.id}
    /\ UNCHANGED <<streamRef, startedRef, srcObject, metadataHandler, isReady,
                   permissionState, nextRequest, cameraStops, stoppedLast>>
    /\ UNCHANGED <<filterVars, trackVars, captureVars, compositeVars,
                   meshVars, geomVars, canvasVars, wrapVars>>

\* applyConstraints settles (a rejection is caught and logged): lines 68-87
\* keep the stream and attach it to the video
ConstraintsSettled(r) ==
    /\ r \in mediaRequests
    /\ r.stage = "applyConstraints"
    /\ mediaRequests' = mediaRequests \ {r}
    /\ streamRef' = r.id
    /\ startedRef' = TRUE
    /\ permissionState' = "granted"
    /\ srcObject' = r.id
    /\ metadataHandler' = TRUE
    /\ UNCHANGED <<isReady, liveStreams, nextRequest, cameraStops,
                   stoppedLast>>
    /\ UNCHANGED <<filterVars, trackVars, captureVars, compositeVars,
                   meshVars, geomVars, canvasVars, wrapVars>>

\* getUserMedia rejects: the catch block of startCamera (lines 91-110);
\* denied tells a NotAllowedError from the other errors
MediaRejects(r, denied) ==
    /\ r \in mediaRequests
    /\ r.stage = "getUserMedia"
    /\ mediaRequests' = mediaRequests \ {r}
    /\ permissionState' = IF denied THEN "denied" ELSE "error"
    /\ startedRef' = FALSE
    /\ streamRef' = NoStream
    /\ isReady' = FALSE
    /\ UNCHANGED <<srcObject, metadataHandler, liveStreams, nextRequest,
                   cameraStops, stoppedLast>>
    /\ UNCHANGED <<filterVars, trackVars, captureVars, compositeVars,
                   meshVars, geomVars, canvasVars, wrapVars>>

\* the video fires loadedmetadata: play() settles and setIsReady(true) runs
LoadedMetadata ==
    /\ metadataHandler
    /\ srcObject # NoStream
    /\ metadataHandler' = FALSE
    /\ isReady' = TRUE
    /\ UNCHANGED <<streamRef, startedRef, srcObject, permissionState,
                   mediaRequests, liveStreams, nextRequest, cameraStops,
                   stoppedLast>>
    /\ UNCHANGED <<filterVars, trackVars, captureVars, compositeVars,
                   meshVars, geomVars, canvasVars, wrapVars>>

\* stopCamera()
StopCamera ==
    /\ cameraStops < MaxStops
    /\ cameraStops' = cameraStops + 1
    /\ liveStreams' = IF streamRef # NoStream THEN liveStreams \ {streamRef}
                      ELSE liveStreams
    /\ streamRef' = NoStream
    /\ srcObject' = NoStream
    /\ startedRef' = FALSE
    /\ isReady' = FALSE
    /\ stoppedLast' = TRUE
    /\ UNCHANGED <<metadataHandler, permissionState, mediaRequests,
                   nextRequest>>
    /\ UNCHANGED <<filterVars, trackVars, captureVars, compositeVars,
                   meshVars, geomVars, canvasVars, wrapVars>>

CameraInit ==
    /\ CameraStart
    /\ FilterIdle /\ TrackIdle /\ CaptureIdle /\ CompositeIdle /\ MeshIdle
    /\ GeomIdle /\ CanvasIdle /\ WrapIdle

CameraNext ==
    \/ \E dev \in BOOLEAN : StartCamera(dev)
    \/ \E r \in mediaRequests : MediaResolves(r)
    \/ \E r \in mediaRequests : ConstraintsSettled(r)
    \/ \E r \in mediaRequests, denied \in BOOLEAN : MediaRejects(r, denied)
    \/ LoadedMetadata
    \/ StopCamera

SpecCamera == CameraInit /\ [][CameraNext]_vars

\* C28: once stopCamera() has been called, with no startCamera() call after
\* it, and every pending request has settled, no stream is held or running
C28_NoStreamAfterStop ==
    (stoppedLast /\ mediaRequests = {}) =>
        /\ streamRef = NoStream
        /\ ~startedRef
        /\ liveStreams = {}

=============================================================================
